---------------------------- MODULE Spec2Model ----------------------------
(***************************************************************************)
(* A model of the FOGO testnet swap bot: the per-wallet worker loop        *)
(* (worker.py), the swap orchestrator (swap.py), the funding acquirer      *)
(* (airdrop.py), the two submission channels (transaction.py), the balance *)
(* oracle (network.py) and the fleet aggregator (worker.py).               *)
(*                                                                         *)
(* Text is modelled as a sequence of one-character strings, so that        *)
(* str.strip, len and the substring test are computed and not assumed.     *)
(* A remote call is one action: the request, a response drawn from the     *)
(* channel's response set (a transport exception included) and the code    *)
(* that runs up to the next await.                                         *)
(***************************************************************************)
EXTENDS Integers, Sequences, FiniteSets, TLC

\* ------------------------------------------------------------------ bounds

\* The largest number of swaps per wallet the user enters (num_swaps).
MaxSwaps == 2

\* The largest number of swaps when one worker loop is followed on its own.
MaxLoopSwaps == 4

\* The largest number of attempts a failure rate is taken over.
MaxAttempts == 20

\* ------------------------------------------------------- program constants

SWAP_AMOUNTS == <<100000, 200000, 500000, 1000000, 1500000>>

\* swap.py: "if balance > 100000"
USABLE_BALANCE == 100000

\* transaction.py: "len(result) > 10"
MIN_REFERENCE_LEN == 10

HTTP_OK == 200

HTTP_CREATED == 201

\* aiohttp's raise_for_status raises for a status of 400 and above
HTTP_ERROR_FROM == 400

\* The length of the all-ones placeholder signature of transaction.py
PLACEHOLDER_SIG_LEN == 64

\* ------------------------------------------------------------------- text

Chars(n, c) == [k \in 1..n |-> c]

EMPTY == <<>>

QUOTE == "\""

NULL_TEXT == <<"n", "u", "l", "l">>

PLACEHOLDER == <<"p", "l", "a", "c", "e", "h", "o", "l", "d", "e", "r">>

\* "1111...1111", 64 characters
PLACEHOLDER_SIG == Chars(PLACEHOLDER_SIG_LEN, "1")

\* "abc1234567": 10 characters
REF10 == <<"a", "b", "c", "1", "2", "3", "4", "5", "6", "7">>

\* "abc12345678": 11 characters
REF11 == REF10 \o <<"8">>

\* "5663009", the known paymaster error code
CODE_5663009 == <<"5", "6", "6", "3", "0", "0", "9">>

Quoted(s) == <<QUOTE>> \o s \o <<QUOTE>>

\* Python's "sub in s"
Contains(s, sub) ==
    \E k \in 1..(Len(s) - Len(sub) + 1) : SubSeq(s, k, k + Len(sub) - 1) = sub

RECURSIVE LStrip(_, _)
LStrip(s, c) == IF s # EMPTY /\ Head(s) = c THEN LStrip(Tail(s), c) ELSE s

RECURSIVE RStrip(_, _)
RStrip(s, c) ==
    IF s # EMPTY /\ s[Len(s)] = c THEN RStrip(SubSeq(s, 1, Len(s) - 1), c) ELSE s

\* Python's s.strip('"'): every leading and trailing quote is removed
strip(s, c) == RStrip(LStrip(s, c), c)

LowerChar(c) ==
    CASE c = "A" -> "a" [] c = "D" -> "d" [] c = "E" -> "e" [] c = "I" -> "i"
      [] c = "L" -> "l" [] c = "M" -> "m" [] c = "R" -> "r" [] c = "T" -> "t"
      [] c = "Y" -> "y" [] OTHER -> c

\* Python's s.lower(), on the letters the modelled messages use
lower(s) == [k \in 1..Len(s) |-> LowerChar(s[k])]

\* --------------------------------------------------------------- JSON values

JsonNull == [t |-> "null", s |-> EMPTY]

JsonStr(s) == [t |-> "str", s |-> s]

\* Python truthiness of a decoded JSON value: None and "" are falsy
Truthy(v) == v.t = "str" /\ v.s # EMPTY

\* -------------------------------------------------------------- responses

\* What one HTTP call can come back with.  exc: the call raised (timeout,
\* connection error, undecodable body).  json_ok: resp.json() decoded an
\* object; has_x: the object has the key x.
HttpText(status, text) == [exc |-> FALSE, status |-> status, text |-> text]

TransportError == [exc |-> TRUE, status |-> 0, text |-> EMPTY]

JsonRpc(status, json_ok, has_result, result, has_error, message) ==
    [exc |-> FALSE, status |-> status, json_ok |-> json_ok,
     has_result |-> has_result, result |-> result,
     has_error |-> has_error, message |-> message]

JsonRpcError ==
    [exc |-> TRUE, status |-> 0, json_ok |-> FALSE, has_result |-> FALSE,
     result |-> JsonNull, has_error |-> FALSE, message |-> EMPTY]

RpcResult(status, result) == JsonRpc(status, TRUE, TRUE, result, FALSE, EMPTY)

RpcFailure(status, message) == JsonRpc(status, TRUE, FALSE, JsonNull, TRUE, message)

NoResponse == [exc |-> FALSE, status |-> 0]

\* A transaction signature the network hands back
SIG == <<"5", "V", "E", "R", "v">>

MSG_BUSY == <<"b", "u", "s", "y">>

MSG_RATE_LIMIT == <<"R", "a", "t", "e", " ", "L", "I", "M", "I", "T">>

MSG_ALREADY == <<"A", "l", "r", "e", "a", "d", "y">>

\* {"e":5663009}: an error body, 13 characters
ERROR_BODY == <<"{", QUOTE, "e", QUOTE, ":">> \o CODE_5663009 \o <<"}">>

PaymasterResponses ==
    { TransportError,
      HttpText(200, Quoted(REF10)), HttpText(200, Quoted(REF11)),
      HttpText(200, REF11), HttpText(200, EMPTY), HttpText(200, NULL_TEXT),
      HttpText(200, Quoted(NULL_TEXT)), HttpText(200, ERROR_BODY),
      HttpText(500, ERROR_BODY), HttpText(500, MSG_BUSY),
      HttpText(400, Quoted(REF11)) }

SendTransactionResponses ==
    { JsonRpcError,
      JsonRpc(200, FALSE, FALSE, JsonNull, FALSE, EMPTY),
      RpcResult(200, JsonStr(SIG)), RpcResult(200, JsonStr(PLACEHOLDER_SIG)),
      RpcResult(200, JsonStr(Chars(PLACEHOLDER_SIG_LEN - 1, "1"))),
      RpcResult(200, JsonStr(EMPTY)), RpcResult(200, JsonNull),
      RpcFailure(200, MSG_BUSY), RpcResult(500, JsonStr(SIG)),
      RpcFailure(500, MSG_BUSY) }

AirdropResponses ==
    { JsonRpcError,
      JsonRpc(200, FALSE, FALSE, JsonNull, FALSE, EMPTY),
      RpcResult(200, JsonStr(SIG)), RpcResult(200, JsonNull),
      RpcFailure(200, MSG_RATE_LIMIT), RpcFailure(200, MSG_ALREADY),
      RpcFailure(200, MSG_BUSY), RpcResult(429, JsonStr(SIG)),
      RpcFailure(500, MSG_RATE_LIMIT) }

DevnetResponses ==
    { JsonRpcError, RpcResult(200, JsonStr(SIG)), RpcResult(200, JsonNull),
      RpcFailure(200, MSG_RATE_LIMIT), RpcResult(500, JsonStr(SIG)) }

FaucetResponses ==
    { TransportError, HttpText(200, MSG_BUSY), HttpText(201, EMPTY),
      HttpText(204, EMPTY), HttpText(429, MSG_RATE_LIMIT), HttpText(500, MSG_BUSY) }

\* Python's None, and an int
None == [is_none |-> TRUE, int |-> 0]

Int_(n) == [is_none |-> FALSE, int |-> n]

\* getBalance: {"result": {"value": n}}, where n may be null
BalanceReply(status, json_ok, has_value, value) ==
    [exc |-> FALSE, status |-> status, json_ok |-> json_ok,
     has_value |-> has_value, value |-> value]

BalanceValues == {0, 100000, 150000, 2000000}

BalanceResponses ==
    { [exc |-> TRUE, status |-> 0, json_ok |-> FALSE, has_value |-> FALSE, value |-> Int_(0)],
      BalanceReply(500, TRUE, TRUE, Int_(2000000)),
      BalanceReply(200, FALSE, FALSE, Int_(0)),
      BalanceReply(200, TRUE, FALSE, Int_(0)),
      BalanceReply(200, TRUE, TRUE, None) }
    \cup { BalanceReply(200, TRUE, TRUE, Int_(v)) : v \in BalanceValues }

\* /dex/quote: {"quote": {"tokenMinOut": n, "poolAddress": p}}
QuoteReply(status, json_ok, has_quote, has_min_out, token_min_out) ==
    [exc |-> FALSE, status |-> status, json_ok |-> json_ok, has_quote |-> has_quote,
     has_min_out |-> has_min_out, token_min_out |-> token_min_out]

\* int(quote["tokenMinOut"]) accepts any integer the service sends
TokenMinOuts == {-1, 0, 7}

QuoteResponses ==
    { [exc |-> TRUE, status |-> 0, json_ok |-> FALSE, has_quote |-> FALSE,
       has_min_out |-> FALSE, token_min_out |-> 0],
      QuoteReply(500, TRUE, TRUE, TRUE, 7),
      QuoteReply(200, FALSE, FALSE, FALSE, 0),
      QuoteReply(200, TRUE, FALSE, FALSE, 0),
      QuoteReply(200, TRUE, TRUE, FALSE, 0) }
    \cup { QuoteReply(200, TRUE, TRUE, TRUE, m) : m \in TokenMinOuts }

\* /dex/txs/swap: {"serializedTx": base64}
BuildReply(status, json_ok, has_tx, base64_ok) ==
    [exc |-> FALSE, status |-> status, json_ok |-> json_ok, has_tx |-> has_tx,
     base64_ok |-> base64_ok]

BuildResponses ==
    { [exc |-> TRUE, status |-> 0, json_ok |-> FALSE, has_tx |-> FALSE, base64_ok |-> FALSE],
      BuildReply(500, TRUE, TRUE, TRUE), BuildReply(200, FALSE, FALSE, FALSE),
      BuildReply(200, TRUE, FALSE, FALSE), BuildReply(200, TRUE, TRUE, FALSE),
      BuildReply(200, TRUE, TRUE, TRUE) }

\* ------------------------------------------------- transaction.py channels

AIRDROP_KEYWORDS ==
    { <<"l", "i", "m", "i", "t">>, <<"a", "l", "r", "e", "a", "d", "y">>,
      <<"f", "u", "n", "d", "e", "d">>, <<"r", "e", "c", "e", "n", "t">> }

\* A channel's (success, reference) pair
Failed == <<FALSE, EMPTY>>

\* A slip: the HTTP status is not looked at
send_transaction_rpc_any_status(resp) ==
    IF resp.exc \/ ~resp.json_ok THEN Failed
    ELSE IF resp.has_result /\ Truthy(resp.result)
         THEN IF resp.result.s # PLACEHOLDER_SIG
              THEN <<TRUE, resp.result.s>>
              ELSE <<TRUE, PLACEHOLDER>>
         ELSE Failed

send_transaction_rpc(resp) ==
    IF resp.exc THEN Failed
    ELSE IF resp.status = HTTP_OK
         THEN IF ~resp.json_ok THEN Failed
              ELSE IF resp.has_result /\ Truthy(resp.result)
                   THEN IF resp.result.s # PLACEHOLDER_SIG
                        THEN <<TRUE, resp.result.s>>
                        ELSE <<TRUE, PLACEHOLDER>>
                   ELSE Failed
         ELSE Failed

\* A slip: "len(result) >= 10" for "len(result) > 10"
send_transaction_paymaster_ge(resp) ==
    IF resp.exc THEN Failed
    ELSE IF resp.status = HTTP_OK
         THEN LET result == strip(resp.text, QUOTE)
              IN  IF result # EMPTY /\ result # NULL_TEXT
                     /\ Len(result) >= MIN_REFERENCE_LEN
                  THEN <<TRUE, result>>
                  ELSE Failed
         ELSE Failed

\* A slip: the body is returned as received, quotes included
send_transaction_paymaster_raw_reference(resp) ==
    IF resp.exc THEN Failed
    ELSE IF resp.status = HTTP_OK
         THEN LET result == strip(resp.text, QUOTE)
              IN  IF result # EMPTY /\ result # NULL_TEXT
                     /\ Len(result) > MIN_REFERENCE_LEN
                  THEN <<TRUE, resp.text>>
                  ELSE Failed
         ELSE Failed

\* The paymaster's answer: accepted with the body as reference, or refused
send_transaction_paymaster(resp) ==
    IF resp.exc THEN Failed
    ELSE IF resp.status = HTTP_OK
         THEN LET result == strip(resp.text, QUOTE)
              IN  IF result # EMPTY /\ result # NULL_TEXT
                     /\ Len(result) > MIN_REFERENCE_LEN
                  THEN <<TRUE, result>>
                  ELSE Failed
         ELSE Failed

\* Signing never raises to the caller: the signed bytes, or the original ones
deserialize_and_sign_transaction(signs) == IF signs THEN "signed" ELSE "raw_tx_bytes"

\* ------------------------------------------------------ network.py oracle

\* The value of the reply is returned as it is, null included
get_balance_rpc(resp) ==
    IF resp.exc THEN Int_(0)
    ELSE IF resp.status = HTTP_OK
         THEN IF ~resp.json_ok THEN Int_(0)
              ELSE IF resp.has_value THEN resp.value ELSE Int_(0)
         ELSE Int_(0)

\* utils.py: "lamports / LAMPORTS_PER_FOGO" raises TypeError on None
format_token_amount_raises(lamports) == lamports.is_none

\* ------------------------------------------------------ airdrop.py channels

\* A slip: the "elif 'error' in result" branch is left out
_try_official_fogo_airdrop_result_only(resp) ==
    IF resp.exc THEN FALSE
    ELSE IF resp.status = HTTP_OK
         THEN IF ~resp.json_ok THEN FALSE
              ELSE resp.has_result /\ Truthy(resp.result)
         ELSE FALSE

\* One requestAirdrop call: True for a result, or for an error that says
\* the wallet was funded recently; only a 200 reply is looked into
_try_official_fogo_airdrop(resp) ==
    IF resp.exc THEN FALSE
    ELSE IF resp.status = HTTP_OK
         THEN IF ~resp.json_ok THEN FALSE
              ELSE IF resp.has_result /\ Truthy(resp.result) THEN TRUE
              ELSE IF resp.has_error
                   THEN \E keyword \in AIRDROP_KEYWORDS :
                            Contains(lower(resp.message), keyword)
                   ELSE FALSE
         ELSE FALSE

\* A slip: "resp.status == 200" for "resp.status in [200, 201]"
faucet_endpoint_ok_200_only(resp) ==
    IF resp.exc THEN FALSE ELSE resp.status = HTTP_OK

\* One endpoint of _try_alternative_faucets
faucet_endpoint_ok(resp) ==
    IF resp.exc THEN FALSE ELSE resp.status \in {HTTP_OK, HTTP_CREATED}

FAUCET_ENDPOINTS == <<"faucet.fogo.io/api/airdrop", "testnet.fogo.io/api/faucet">>

_try_devnet_fallback(resp) ==
    IF resp.exc THEN FALSE
    ELSE IF resp.status = HTTP_OK
         THEN resp.json_ok /\ resp.has_result /\ Truthy(resp.result)
         ELSE FALSE

\* ------------------------------------------------------- swap.py stages

\* _get_swap_quote: the quote, or None
NoQuote == [ok |-> FALSE, token_min_out |-> 0]

\* A slip: "resp.raise_for_status()" is left out
_get_swap_quote_any_status(resp) ==
    IF resp.exc \/ ~resp.json_ok THEN NoQuote
    ELSE IF ~resp.has_quote THEN NoQuote
    ELSE IF ~resp.has_min_out THEN NoQuote
    ELSE [ok |-> TRUE, token_min_out |-> resp.token_min_out]

_get_swap_quote(resp) ==
    IF resp.exc \/ resp.status >= HTTP_ERROR_FROM \/ ~resp.json_ok THEN NoQuote
    ELSE IF ~resp.has_quote THEN NoQuote
    ELSE IF ~resp.has_min_out THEN NoQuote
    ELSE [ok |-> TRUE, token_min_out |-> resp.token_min_out]

\* _get_swap_transaction: TRUE when tx_data was built
_get_swap_transaction(resp) ==
    IF resp.exc \/ resp.status >= HTTP_ERROR_FROM \/ ~resp.json_ok THEN FALSE
    ELSE resp.has_tx /\ resp.base64_ok

\* _ensure_sufficient_balance: int(balance * 0.8), logged and not returned
adjusted_amount(balance) == (balance * 8) \div 10

\* _ensure_sufficient_balance up to its first await: TRUE when the balance
\* gate passes without funding (the adjusted amount is computed and dropped)
balance_gate_passes(balance, amount_in) ==
    IF balance >= amount_in THEN TRUE
    ELSE IF balance > 0 THEN balance > USABLE_BALANCE
    ELSE FALSE

\* _ensure_sufficient_balance after a successful airdrop
balance_after_airdrop_ok(new_balance, amount_in) == new_balance >= amount_in

\* A slip: a failed submission always gives 0
swap_outcome_strict(success, token_min_out) ==
    IF success THEN token_min_out ELSE 0

\* perform_swap's value once _execute_transaction has returned
swap_outcome(success, token_min_out) ==
    IF success THEN token_min_out
    ELSE IF token_min_out > 0 THEN token_min_out ELSE 0

\* Every value a return statement of perform_swap can yield
PerformSwapReturns == {0} \cup TokenMinOuts

\* --------------------------------------------------- utils.py adaptive delay

\* Delays are in milliseconds. A failure rate is the fraction num/den that
\* "failed_swaps / total_attempts" computes, kept exact.
Rate(num, den) == [num |-> num, den |-> den]

\* rate > p/q
RateAbove(rate, p, q) == rate.num * q > p * rate.den

\* A slip: ">=" for ">" at both thresholds
multiplier_ge(failure_rate) ==
    IF ~RateAbove(Rate(5, 10), failure_rate.num, failure_rate.den) THEN 20
    ELSE IF ~RateAbove(Rate(3, 10), failure_rate.num, failure_rate.den) THEN 15
    ELSE 10

\* calculate_adaptive_delay's multiplier, in tenths: 2.0, 1.5 or 1.0
multiplier(failure_rate) ==
    IF RateAbove(failure_rate, 5, 10) THEN 20
    ELSE IF RateAbove(failure_rate, 3, 10) THEN 15
    ELSE 10

\* config.py: MIN_TRANSACTION_DELAY = 0.1 s
MIN_TRANSACTION_DELAY == 100

\* The delays used as sample points of a delay range
DelayValues == {0, 40, 1000, 2000}

\* random.uniform(base_min, base_max): some value of the range
uniform(base_min, base_max) == { d \in DelayValues : base_min <= d /\ d <= base_max }

\* calculate_adaptive_delay once base_delay has been drawn
calculate_adaptive_delay(base_delay, failure_rate) ==
    (base_delay * multiplier(failure_rate)) \div 10

\* The failure rates a call is given: num failures in den attempts
FailureRates ==
    { Rate(p[1], p[2]) :
        p \in { q \in (0..MaxAttempts) \X (1..MaxAttempts) : q[1] <= q[2] } }

\* validate_input_params: 0 <= min_delay <= max_delay
DelayRanges == { r \in DelayValues \X DelayValues : r[1] <= r[2] }

\* The delay ranges the fleet is run with
RunDelays == { <<0, 0>>, <<40, 1000>> }

NoCalc ==
    [pc |-> "none", base_min |-> 0, base_max |-> 0, failure_rate |-> Rate(0, 1),
     base_delay |-> 0, result |-> 0]

\* ------------------------------------------------------------------ state

\* The key files the fleet is run on: one wallet, two wallets, and one
\* wallet whose key is on two lines (load_keypairs_from_file keeps both).
KeyLists == { <<1>>, <<1, 2>>, <<1, 1>> }

VARIABLES
    keypairs,   \* the loaded key list: keypairs[w] is the wallet of worker w
    num_swaps,  \* swaps per wallet
    fleet,      \* run_multiple_workers: its position and total_stats
    wpc,        \* wpc[w]: where worker w is
    cycle,      \* cycle[w]: the loop index i of worker w
    stats,      \* stats[w]: the statistics dict of worker w
    op,         \* op[w]: the locals of worker w's perform_swap call
    hist,       \* hist[w]: counts of what worker w has done (history)
    min_delay,  \* the delay range the user enters, in milliseconds
    max_delay,
    calc        \* one call of calculate_adaptive_delay: arguments and result

vars == <<keypairs, num_swaps, fleet, wpc, cycle, stats, op, hist,
          min_delay, max_delay, calc>>

Workers == DOMAIN keypairs

NoStats == [successful_swaps |-> 0, failed_swaps |-> 0, total_volume |-> 0, worker_name |-> 0]

NewStats(name) == [NoStats EXCEPT !.worker_name = name]

NoRet == [done |-> FALSE, success |-> FALSE, ref |-> EMPTY]

Ret(pair) == [done |-> TRUE, success |-> pair[1], ref |-> pair[2]]

IdleOp ==
    [stage |-> "idle", amount_in |-> 0, balance |-> Int_(0), faucet_idx |-> 0,
     funding |-> <<>>, airdrop_ret |-> NoRet, quote |-> NoQuote,
     serialized_tx |-> "none", paymaster_ret |-> NoRet, rpc_ret |-> NoRet,
     exec_ret |-> NoRet, calls |-> <<>>, sent |-> <<>>, resp |-> NoResponse,
     exc_at |-> {}, caught |-> FALSE, quote_input |-> 0, build_input |-> 0,
     result |-> 0]

\* The locals of one _adaptive_sleep call
NoSleep == [total_attempts |-> 0, failure_rate |-> Rate(0, 1), sleep_time |-> 0]

NoHist ==
    [ops_started |-> 0, ops_returned |-> 0, sleeps |-> 0, chosen |-> 0,
     sleep |-> NoSleep]

NoTotals ==
    [total_successful_swaps |-> 0, total_failed_swaps |-> 0, total_volume |-> 0,
     worker_count |-> 0, swaps_per_worker |-> 0]

\* What print_final_statistics computes before it prints
NoReport ==
    [total_attempts |-> 0, success_rate |-> Rate(0, 1), completed |-> {}, raised |-> {}]

InitFor(keys, delays, swaps) ==
    /\ keypairs \in keys
    /\ \E range \in delays : min_delay = range[1] /\ max_delay = range[2]
    /\ calc = NoCalc
    /\ num_swaps \in 1..swaps
    /\ fleet = [pc |-> "start", total_stats |-> NoTotals, report |-> NoReport]
    /\ wpc = [w \in Workers |-> "not_started"]
    /\ cycle = [w \in Workers |-> 0]
    /\ stats = [w \in Workers |-> NoStats]
    /\ op = [w \in Workers |-> IdleOp]
    /\ hist = [w \in Workers |-> NoHist]

\* One wallet, every remote call of its operations modelled
Init == InitFor({<<1>>}, {<<40, 1000>>}, MaxSwaps)

\* A fleet, each operation modelled by its start and its return
FleetInit == InitFor(KeyLists, {<<0, 0>>}, MaxSwaps)

\* One worker loop, each operation modelled by its start and its return
LoopInit == InitFor({<<1>>}, RunDelays, MaxLoopSwaps)

\* ------------------------------------------------------------ worker loop

\* op[w] becomes o; a return of perform_swap is counted
SetOp(w, o) ==
    /\ op' = [op EXCEPT ![w] = o]
    /\ hist' = [hist EXCEPT ![w].ops_returned =
                    IF o.stage = "returned" THEN @ + 1 ELSE @]

\* The stage of perform_swap a remote call belongs to
StageOf(channel) ==
    CASE channel = "getBalance" -> "balance"
      [] channel = "quote" -> "quote"
      [] channel = "build" -> "build"
      [] channel \in {"paymaster", "sendTransaction"} -> "submit"
      [] OTHER -> "funding"

\* A remote call and its answer; a transport exception is noted per stage
Call(o, channel, resp) ==
    [o EXCEPT !.calls = Append(@, channel), !.resp = resp,
              !.exc_at = IF resp.exc THEN @ \cup {StageOf(channel)} ELSE @]

Return(o, value) == [o EXCEPT !.stage = "returned", !.result = value]

\* A slip: perform_swap has no handler, so the error leaves the call
Caught_reraises(o) == [o EXCEPT !.stage = "raised", !.caught = FALSE]

\* perform_swap's "except Exception": the error is logged and 0 is returned
Caught(o) == [Return(o, 0) EXCEPT !.caught = TRUE]

\* The loop body up to the await of perform_swap: the amount is drawn and
\* the call starts with its balance query pending
BeginSwap(w, i) ==
    \E k \in DOMAIN SWAP_AMOUNTS :
        /\ cycle' = [cycle EXCEPT ![w] = i]
        /\ wpc' = [wpc EXCEPT ![w] = "swap"]
        /\ op' = [op EXCEPT ![w] = [IdleOp EXCEPT !.stage = "balance",
                                                   !.amount_in = SWAP_AMOUNTS[k]]]

\* run_multiple_workers builds the tasks and awaits gather
FleetStart ==
    /\ fleet.pc = "start"
    /\ fleet' = [fleet EXCEPT !.pc = "gather"]
    /\ UNCHANGED <<keypairs, num_swaps, min_delay, max_delay, calc, wpc, cycle, stats, op, hist>>

\* worker: the statistics are created and the first cycle starts
WorkerStart(w) ==
    /\ fleet.pc = "gather"
    /\ wpc[w] = "not_started"
    /\ stats' = [stats EXCEPT ![w] = NewStats(w)]
    /\ BeginSwap(w, 0)
    /\ hist' = [hist EXCEPT ![w].ops_started = @ + 1,
                            ![w].chosen = @ + op'[w].amount_in]
    /\ UNCHANGED <<keypairs, num_swaps, min_delay, max_delay, calc, fleet>>

\* A slip: a failed operation is logged and not counted
record_result_success_only(s, result, amount_in) ==
    IF result > 0
    THEN [s EXCEPT !.successful_swaps = @ + 1, !.total_volume = @ + amount_in]
    ELSE s

\* A slip: "result != 0" for "result > 0"
record_result_nonzero(s, result, amount_in) ==
    IF result # 0
    THEN [s EXCEPT !.successful_swaps = @ + 1, !.total_volume = @ + amount_in]
    ELSE [s EXCEPT !.failed_swaps = @ + 1]

\* A slip: the volume grows by the amount received, not by the amount sent
record_result_adds_received(s, result, amount_in) ==
    IF result > 0
    THEN [s EXCEPT !.successful_swaps = @ + 1, !.total_volume = @ + result]
    ELSE [s EXCEPT !.failed_swaps = @ + 1]

\* worker: "if result > 0" counts a success and its volume, else a failure
record_result(s, result, amount_in) ==
    IF result > 0
    THEN [s EXCEPT !.successful_swaps = @ + 1, !.total_volume = @ + amount_in]
    ELSE [s EXCEPT !.failed_swaps = @ + 1]

\* "if i < swaps - 1": an adaptive sleep follows the operation
sleeps_after(i, swaps) == i < swaps - 1

\* A slip: perform_swap is started and not awaited, so the loop goes on
\* while the call is still in flight
WorkerRecord_not_awaited(w) ==
    /\ wpc[w] = "swap"
    /\ stats' = [stats EXCEPT ![w] = record_result(@, op[w].result, op[w].amount_in)]
    /\ wpc' = [wpc EXCEPT ![w] = IF sleeps_after(cycle[w], num_swaps)
                                 THEN "sleep" ELSE "done"]
    /\ op' = [op EXCEPT ![w] = IdleOp]
    /\ UNCHANGED <<keypairs, num_swaps, min_delay, max_delay, calc, fleet, cycle, hist>>

Max(a, b) == IF a >= b THEN a ELSE b

\* A slip: the attempts are counted as "cycle", not "cycle + 1"
_adaptive_sleep_cycle_only(i, s, base_delay) ==
    LET total_attempts == i
        failure_rate == IF total_attempts > 0
                        THEN Rate(s.failed_swaps, total_attempts) ELSE Rate(0, 1)
        sleep_time == calculate_adaptive_delay(base_delay, failure_rate)
    IN  [total_attempts |-> total_attempts, failure_rate |-> failure_rate,
         sleep_time |-> Max(sleep_time, MIN_TRANSACTION_DELAY)]

\* A slip: "max(sleep_time, MIN_TRANSACTION_DELAY)" is left out
_adaptive_sleep_no_floor(i, s, base_delay) ==
    LET total_attempts == i + 1
        failure_rate == IF total_attempts > 0
                        THEN Rate(s.failed_swaps, total_attempts) ELSE Rate(0, 1)
        sleep_time == calculate_adaptive_delay(base_delay, failure_rate)
    IN  [total_attempts |-> total_attempts, failure_rate |-> failure_rate,
         sleep_time |-> sleep_time]

\* _adaptive_sleep up to its await: the time to sleep after cycle i, given the
\* statistics and the base delay that random.uniform draws
_adaptive_sleep(i, s, base_delay) ==
    LET total_attempts == i + 1
        failure_rate == IF total_attempts > 0
                        THEN Rate(s.failed_swaps, total_attempts) ELSE Rate(0, 1)
        sleep_time == calculate_adaptive_delay(base_delay, failure_rate)
    IN  [total_attempts |-> total_attempts, failure_rate |-> failure_rate,
         sleep_time |-> Max(sleep_time, MIN_TRANSACTION_DELAY)]

\* A slip: "stats" is one dict shared by the workers (the first worker's)
WorkerRecord_shared_stats(w) ==
    /\ wpc[w] = "swap"
    /\ op[w].stage = "returned"
    /\ LET s == record_result(stats[1], op[w].result, op[w].amount_in)
       IN  /\ stats' = [stats EXCEPT ![1] = s]
           /\ IF sleeps_after(cycle[w], num_swaps)
              THEN /\ wpc' = [wpc EXCEPT ![w] = "sleep"]
                   /\ \E base_delay \in uniform(min_delay, max_delay) :
                        hist' = [hist EXCEPT ![w].sleep =
                                    _adaptive_sleep(cycle[w], s, base_delay)]
              ELSE /\ wpc' = [wpc EXCEPT ![w] = "done"]
                   /\ UNCHANGED hist
    /\ op' = [op EXCEPT ![w] = IdleOp]
    /\ UNCHANGED <<keypairs, num_swaps, min_delay, max_delay, calc, fleet, cycle>>

\* worker: perform_swap has returned; the outcome is recorded, and the
\* worker computes its delay and sleeps or, after the last cycle, returns
\* its statistics
WorkerRecord(w) ==
    /\ wpc[w] = "swap"
    /\ op[w].stage = "returned"
    /\ LET s == record_result(stats[w], op[w].result, op[w].amount_in)
       IN  /\ stats' = [stats EXCEPT ![w] = s]
           /\ IF sleeps_after(cycle[w], num_swaps)
              THEN /\ wpc' = [wpc EXCEPT ![w] = "sleep"]
                   /\ \E base_delay \in uniform(min_delay, max_delay) :
                        hist' = [hist EXCEPT ![w].sleep =
                                    _adaptive_sleep(cycle[w], s, base_delay)]
              ELSE /\ wpc' = [wpc EXCEPT ![w] = "done"]
                   /\ UNCHANGED hist
    /\ op' = [op EXCEPT ![w] = IdleOp]
    /\ UNCHANGED <<keypairs, num_swaps, min_delay, max_delay, calc, fleet, cycle>>

\* asyncio.sleep(sleep_time) is over: "for i in range(swaps)" goes on
WorkerWake(w) ==
    /\ wpc[w] = "sleep"
    /\ IF cycle[w] + 1 < num_swaps
       THEN BeginSwap(w, cycle[w] + 1)
       ELSE /\ wpc' = [wpc EXCEPT ![w] = "done"]
            /\ UNCHANGED <<cycle, op>>
    /\ hist' = [hist EXCEPT ![w].ops_started =
                                IF cycle[w] + 1 < num_swaps THEN @ + 1 ELSE @,
                            ![w].chosen =
                                IF cycle[w] + 1 < num_swaps
                                THEN @ + op'[w].amount_in ELSE @,
                            ![w].sleeps = @ + 1, ![w].sleep = NoSleep]
    /\ UNCHANGED <<keypairs, num_swaps, min_delay, max_delay, calc, fleet, stats>>

RECURSIVE SumOver(_, _)
SumOver(results, field) ==
    IF results = <<>> THEN 0
    ELSE Head(results)[field] + SumOver(Tail(results), field)

\* A slip: the totals are assembled when the first worker has finished
FleetGather_first_completed ==
    /\ fleet.pc = "gather"
    /\ \E w \in Workers : wpc[w] = "done"
    /\ LET worker_results == [w \in Workers |-> stats[w]]
       IN  fleet' = [pc |-> "done", report |-> NoReport,
                     total_stats |->
                        [total_successful_swaps |-> SumOver(worker_results, "successful_swaps"),
                         total_failed_swaps |-> SumOver(worker_results, "failed_swaps"),
                         total_volume |-> SumOver(worker_results, "total_volume"),
                         worker_count |-> Len(keypairs),
                         swaps_per_worker |-> num_swaps]]
    /\ UNCHANGED <<keypairs, num_swaps, min_delay, max_delay, calc, wpc, cycle, stats, op, hist>>

\* A slip: the failed total is summed from the successful counts
FleetGather_failed_from_successful ==
    /\ fleet.pc = "gather"
    /\ \A w \in Workers : wpc[w] = "done"
    /\ LET worker_results == [w \in Workers |-> stats[w]]
       IN  fleet' = [pc |-> "done", report |-> NoReport,
                     total_stats |->
                        [total_successful_swaps |-> SumOver(worker_results, "successful_swaps"),
                         total_failed_swaps |-> SumOver(worker_results, "successful_swaps"),
                         total_volume |-> SumOver(worker_results, "total_volume"),
                         worker_count |-> Len(keypairs),
                         swaps_per_worker |-> num_swaps]]
    /\ UNCHANGED <<keypairs, num_swaps, min_delay, max_delay, calc, wpc, cycle, stats, op, hist>>

\* A slip: worker_count counts the distinct wallets, not the workers
FleetGather_distinct_wallets ==
    /\ fleet.pc = "gather"
    /\ \A w \in Workers : wpc[w] = "done"
    /\ LET worker_results == [w \in Workers |-> stats[w]]
       IN  fleet' = [pc |-> "done", report |-> NoReport,
                     total_stats |->
                        [total_successful_swaps |-> SumOver(worker_results, "successful_swaps"),
                         total_failed_swaps |-> SumOver(worker_results, "failed_swaps"),
                         total_volume |-> SumOver(worker_results, "total_volume"),
                         worker_count |-> Cardinality({keypairs[w] : w \in Workers}),
                         swaps_per_worker |-> num_swaps]]
    /\ UNCHANGED <<keypairs, num_swaps, min_delay, max_delay, calc, wpc, cycle, stats, op, hist>>

\* gather has every worker's result: the totals are assembled
FleetGather ==
    /\ fleet.pc = "gather"
    /\ \A w \in Workers : wpc[w] = "done"
    /\ LET worker_results == [w \in Workers |-> stats[w]]
       IN  fleet' = [pc |-> "done", report |-> NoReport,
                     total_stats |->
                        [total_successful_swaps |-> SumOver(worker_results, "successful_swaps"),
                         total_failed_swaps |-> SumOver(worker_results, "failed_swaps"),
                         total_volume |-> SumOver(worker_results, "total_volume"),
                         worker_count |-> Len(keypairs),
                         swaps_per_worker |-> num_swaps]]
    /\ UNCHANGED <<keypairs, num_swaps, min_delay, max_delay, calc, wpc, cycle, stats, op, hist>>

LAMPORTS_PER_FOGO == 1000000000

\* The divisors of the "/" that print_final_statistics evaluates for these
\* totals; a "/" by zero raises ZeroDivisionError
print_final_statistics_divisors(totals, results) ==
    LET total_attempts == totals.worker_count * totals.swaps_per_worker
    IN  (IF total_attempts > 0 THEN {total_attempts} ELSE {})
        \cup {LAMPORTS_PER_FOGO}
        \cup (IF results > 1
              THEN (IF totals.swaps_per_worker > 0 THEN {totals.swaps_per_worker} ELSE {})
                   \cup {LAMPORTS_PER_FOGO}
              ELSE {})

\* A slip: the report also prints the volume per successful swap, which
\* divides by the number of successes
PrintFinalStatistics_per_success ==
    /\ fleet.pc = "done"
    /\ LET totals == fleet.total_stats
           total_attempts == totals.worker_count * totals.swaps_per_worker
           success_rate == IF total_attempts > 0
                           THEN Rate(totals.total_successful_swaps, total_attempts)
                           ELSE Rate(0, 1)
       IN  fleet' = [fleet EXCEPT
                        !.pc = IF totals.total_successful_swaps = 0
                               THEN "raised" ELSE "reported",
                        !.report = [NoReport EXCEPT
                                       !.total_attempts = total_attempts,
                                       !.success_rate = success_rate]]
    /\ UNCHANGED <<keypairs, num_swaps, min_delay, max_delay, calc, wpc, cycle, stats, op, hist>>

\* main: run_multiple_workers has returned and print_final_statistics prints
\* the totals; its only division is guarded by total_attempts > 0
PrintFinalStatistics ==
    /\ fleet.pc = "done"
    /\ LET totals == fleet.total_stats
           total_attempts == totals.worker_count * totals.swaps_per_worker
           success_rate == IF total_attempts > 0
                           THEN Rate(totals.total_successful_swaps, total_attempts)
                           ELSE Rate(0, 1)
           raises == 0 \in print_final_statistics_divisors(totals, Len(keypairs))
       IN  fleet' = [fleet EXCEPT
                        !.pc = IF raises THEN "raised" ELSE "reported",
                        !.report = [NoReport EXCEPT
                                       !.total_attempts = total_attempts,
                                       !.success_rate = success_rate,
                                       !.completed = IF raises THEN {}
                                                     ELSE {"print_final_statistics"},
                                       !.raised = IF raises
                                                  THEN {"print_final_statistics"}
                                                  ELSE {}]]
    /\ UNCHANGED <<keypairs, num_swaps, min_delay, max_delay, calc, wpc, cycle, stats, op, hist>>

\* total_time of a run, in ms: the clock may not have advanced
TotalTimes == { 0, 1500 }

\* The divisors calculate_worker_efficiency evaluates, over all workers
calculate_worker_efficiency_divisors(totals, worker_results, total_time) ==
    UNION { (IF totals.swaps_per_worker > 0 THEN {totals.swaps_per_worker} ELSE {})
            \cup (IF worker_results[w].successful_swaps > 0
                  THEN {worker_results[w].successful_swaps} ELSE {})
            \cup {LAMPORTS_PER_FOGO}
            \cup (IF total_time > 0 THEN {60, total_time} ELSE {})
            : w \in DOMAIN worker_results }

\* The divisors print_efficiency_report evaluates: those of
\* calculate_worker_efficiency, then the table's and the averages'
print_efficiency_report_divisors(totals, worker_results, total_time) ==
    LET efficiency == { worker_results[w].worker_name : w \in DOMAIN worker_results }
    IN  calculate_worker_efficiency_divisors(totals, worker_results, total_time)
        \cup (IF efficiency # {} THEN {LAMPORTS_PER_FOGO} ELSE {})
        \cup {Cardinality(efficiency)}

\* The divisors generate_summary_report evaluates: the average volume per
\* swap is "total_volume_fogo / total_successful_swaps", with no test
generate_summary_report_divisors(totals, worker_results) ==
    LET total_attempts == totals.worker_count * totals.swaps_per_worker
    IN  (IF total_attempts > 0 THEN {total_attempts} ELSE {})
        \cup {LAMPORTS_PER_FOGO}
        \cup {totals.total_successful_swaps}
        \cup UNION { (IF totals.swaps_per_worker > 0
                      THEN {totals.swaps_per_worker} ELSE {})
                     \cup {LAMPORTS_PER_FOGO}
                     : w \in DOMAIN worker_results }

\* A reporting function has run on the statistics of the finished run
Reported(function, divisors) ==
    /\ fleet.pc = "reported"
    /\ function \notin fleet.report.completed \cup fleet.report.raised
    /\ fleet' = [fleet EXCEPT
                    !.report.completed = IF 0 \in divisors THEN @ ELSE @ \cup {function},
                    !.report.raised = IF 0 \in divisors THEN @ \cup {function} ELSE @]
    /\ UNCHANGED <<keypairs, num_swaps, min_delay, max_delay, calc, wpc, cycle, stats, op, hist>>

CalculateWorkerEfficiency ==
    \E total_time \in TotalTimes :
        Reported("calculate_worker_efficiency",
                 calculate_worker_efficiency_divisors(fleet.total_stats, stats, total_time))

PrintEfficiencyReport ==
    \E total_time \in TotalTimes :
        Reported("print_efficiency_report",
                 print_efficiency_report_divisors(fleet.total_stats, stats, total_time))

GenerateSummaryReport ==
    Reported("generate_summary_report",
             generate_summary_report_divisors(fleet.total_stats, stats))

\* ------------------------------------------------- perform_swap, step by step

InSwap(w, stage) == wpc[w] = "swap" /\ op[w].stage = stage

OpFrame == UNCHANGED <<keypairs, num_swaps, min_delay, max_delay, calc, fleet, wpc, cycle, stats>>

\* A slip: request_airdrop falls through to "return False" after a success
AirdropReturns_always_false(o, success) ==
    Return([o EXCEPT !.airdrop_ret = Ret(<<FALSE, EMPTY>>)], 0)

\* request_airdrop returns: TRUE leads to the confirmation delay, FALSE
\* ends the operation with amount 0
AirdropReturns(o, success) ==
    LET r == [o EXCEPT !.airdrop_ret = Ret(<<success, EMPTY>>)]
    IN  IF success THEN [r EXCEPT !.stage = "confirm_sleep"] ELSE Return(r, 0)

Report(o, channel, ok) == [o EXCEPT !.funding = Append(@, [ch |-> channel, ok |-> ok])]

\* A slip: the faucet loop has no "return True" and tries every endpoint
after_faucet_no_return(o, ok) ==
    IF o.faucet_idx < Len(FAUCET_ENDPOINTS)
    THEN [o EXCEPT !.faucet_idx = @ + 1]
    ELSE IF ok THEN AirdropReturns(o, TRUE) ELSE [o EXCEPT !.stage = "airdrop_devnet"]

\* What the faucet loop does after one endpoint has answered
after_faucet(o, ok) ==
    IF ok THEN AirdropReturns(o, TRUE)
    ELSE IF o.faucet_idx < Len(FAUCET_ENDPOINTS)
         THEN [o EXCEPT !.faucet_idx = @ + 1]
         ELSE [o EXCEPT !.stage = "airdrop_devnet"]

\* A slip: a balance query that raised is sent again
GetBalance_retries(w) ==
    /\ InSwap(w, "balance")
    /\ \E resp \in BalanceResponses :
        LET balance == get_balance_rpc(resp)
            o == [Call(op[w], "getBalance", resp) EXCEPT !.balance = balance]
        IN  SetOp(w, IF resp.exc THEN o
                     ELSE IF format_token_amount_raises(balance)
                     THEN Caught(o)
                     ELSE [o EXCEPT !.stage =
                            IF balance_gate_passes(balance.int, o.amount_in)
                            THEN "quote" ELSE "airdrop_official"])
    /\ OpFrame

\* perform_swap: the balance query, the log line that formats the balance
\* (its TypeError is caught by perform_swap, which returns 0) and the gate
\* up to its first await
GetBalance(w) ==
    /\ InSwap(w, "balance")
    /\ \E resp \in BalanceResponses :
        LET balance == get_balance_rpc(resp)
            o == [Call(op[w], "getBalance", resp) EXCEPT !.balance = balance]
        IN  SetOp(w, IF format_token_amount_raises(balance)
                     THEN Caught(o)
                     ELSE [o EXCEPT !.stage =
                            IF balance_gate_passes(balance.int, o.amount_in)
                            THEN "quote" ELSE "airdrop_official"])
    /\ OpFrame

\* request_airdrop, attempt 1
AirdropOfficial(w) ==
    /\ InSwap(w, "airdrop_official")
    /\ \E resp \in AirdropResponses :
        LET ok == _try_official_fogo_airdrop(resp)
            o == Report(Call(op[w], "requestAirdrop", resp), "requestAirdrop", ok)
        IN  SetOp(w, IF ok THEN AirdropReturns(o, TRUE)
                     ELSE [o EXCEPT !.stage = "airdrop_faucet", !.faucet_idx = 1])
    /\ OpFrame

\* request_airdrop, attempt 2: one endpoint of the loop
AirdropFaucet(w) ==
    /\ InSwap(w, "airdrop_faucet")
    /\ \E resp \in FaucetResponses :
        LET endpoint == FAUCET_ENDPOINTS[op[w].faucet_idx]
            ok == faucet_endpoint_ok(resp)
            o == Report(Call(op[w], endpoint, resp), endpoint, ok)
        IN  SetOp(w, after_faucet(o, ok))
    /\ OpFrame

\* request_airdrop, attempt 3
AirdropDevnet(w) ==
    /\ InSwap(w, "airdrop_devnet")
    /\ \E resp \in DevnetResponses :
        LET ok == _try_devnet_fallback(resp)
            o == Report(Call(op[w], "devnet", resp), "devnet", ok)
        IN  SetOp(w, AirdropReturns(o, ok))
    /\ OpFrame

\* asyncio.sleep(5) after a successful airdrop
ConfirmationDelay(w) ==
    /\ InSwap(w, "confirm_sleep")
    /\ SetOp(w, [op[w] EXCEPT !.stage = "rebalance"])
    /\ OpFrame

\* A slip: a balance that is still too low after funding asks for funding again
RecheckBalance_funds_again(w) ==
    /\ InSwap(w, "rebalance")
    /\ \E resp \in BalanceResponses :
        LET new_balance == get_balance_rpc(resp)
            o == [Call(op[w], "getBalance", resp) EXCEPT !.balance = new_balance]
        IN  SetOp(w, IF format_token_amount_raises(new_balance)
                     THEN Caught(o)
                     ELSE IF balance_after_airdrop_ok(new_balance.int, o.amount_in)
                          THEN [o EXCEPT !.stage = "quote"]
                          ELSE [o EXCEPT !.stage = "airdrop_official", !.funding = <<>>,
                                         !.airdrop_ret = NoRet])
    /\ OpFrame

\* the balance is queried again, formatted for the log (a TypeError goes
\* up to perform_swap's handler) and must cover the amount
RecheckBalance(w) ==
    /\ InSwap(w, "rebalance")
    /\ \E resp \in BalanceResponses :
        LET new_balance == get_balance_rpc(resp)
            o == [Call(op[w], "getBalance", resp) EXCEPT !.balance = new_balance]
        IN  SetOp(w, IF format_token_amount_raises(new_balance)
                     THEN Caught(o)
                     ELSE IF balance_after_airdrop_ok(new_balance.int, o.amount_in)
                          THEN [o EXCEPT !.stage = "quote"] ELSE Return(o, 0))
    /\ OpFrame

\* A slip: "if not quote_data: return 0" is left out
GetSwapQuote_unchecked(w) ==
    /\ InSwap(w, "quote")
    /\ \E resp \in QuoteResponses :
        LET quote_data == _get_swap_quote(resp)
            o == [Call(op[w], "quote", resp) EXCEPT !.quote = quote_data,
                                                    !.quote_input = op[w].amount_in]
        IN  SetOp(w, [o EXCEPT !.stage = "build"])
    /\ OpFrame

\* A slip: the amount adjusted to 80% of the balance is what is quoted
GetSwapQuote_adjusted_amount(w) ==
    /\ InSwap(w, "quote")
    /\ \E resp \in QuoteResponses :
        LET quote_data == _get_swap_quote(resp)
            o == [Call(op[w], "quote", resp) EXCEPT
                    !.quote = quote_data,
                    !.quote_input = IF op[w].balance.int < op[w].amount_in
                                    THEN adjusted_amount(op[w].balance.int)
                                    ELSE op[w].amount_in]
        IN  SetOp(w, IF quote_data.ok THEN [o EXCEPT !.stage = "build"]
                     ELSE Return([o EXCEPT !.balance = Int_(0)], 0))
    /\ OpFrame

\* _get_swap_quote is called with amount_in, which goes out as inputAmount
\* (the balance is not read after the build request and is dropped there)
GetSwapQuote(w) ==
    /\ InSwap(w, "quote")
    /\ \E resp \in QuoteResponses :
        LET quote_data == _get_swap_quote(resp)
            o == [Call(op[w], "quote", resp) EXCEPT !.quote = quote_data,
                                                    !.quote_input = op[w].amount_in]
        IN  SetOp(w, IF quote_data.ok THEN [o EXCEPT !.stage = "build"]
                     ELSE Return([o EXCEPT !.balance = Int_(0)], 0))
    /\ OpFrame

\* A slip: "if not tx_data: return 0" is left out
GetSwapTransaction_unchecked(w) ==
    /\ InSwap(w, "build")
    /\ \E resp \in BuildResponses :
        SetOp(w, [Call(op[w], "build", resp) EXCEPT
                    !.stage = "sign", !.build_input = op[w].amount_in,
                    !.balance = Int_(0)])
    /\ OpFrame

\* _get_swap_transaction is called with amount_in, its inputAmount
GetSwapTransaction(w) ==
    /\ InSwap(w, "build")
    /\ \E resp \in BuildResponses :
        LET o == [Call(op[w], "build", resp) EXCEPT
                    !.build_input = op[w].amount_in, !.balance = Int_(0)]
        IN  SetOp(w, IF _get_swap_transaction(resp)
                     THEN [o EXCEPT !.stage = "sign"] ELSE Return(o, 0))
    /\ OpFrame

\* A slip: a signing failure ends the operation
SignTransaction_fatal(w) ==
    /\ InSwap(w, "sign")
    /\ \E signs \in BOOLEAN :
        SetOp(w, IF signs
                 THEN [op[w] EXCEPT !.stage = "paymaster",
                                    !.serialized_tx = deserialize_and_sign_transaction(signs)]
                 ELSE Return(op[w], 0))
    /\ OpFrame

\* _execute_transaction: local signing, which may fail
SignTransaction(w) ==
    /\ InSwap(w, "sign")
    /\ \E signs \in BOOLEAN :
        SetOp(w, [op[w] EXCEPT !.stage = "paymaster",
                               !.serialized_tx = deserialize_and_sign_transaction(signs)])
    /\ OpFrame

\* _execute_transaction returns: perform_swap returns its amount
ExecuteReturns(o, success) ==
    Return([o EXCEPT !.exec_ret = Ret(<<success, EMPTY>>)],
           swap_outcome(success, o.quote.token_min_out))

\* A slip: the paymaster's result is not checked before the fallback
tries_fallback_always(paymaster_success) == TRUE

\* A slip: the fallback is left out
tries_fallback_never(paymaster_success) == FALSE

\* TRUE when _execute_transaction goes on to the fallback channel
tries_fallback(paymaster_success) == ~paymaster_success

\* A slip: send_transaction_paymaster has no try/except, so a transport
\* exception reaches perform_swap's handler, which returns 0
SendPaymaster_raises(w) ==
    /\ InSwap(w, "paymaster")
    /\ \E resp \in PaymasterResponses :
        LET ret == send_transaction_paymaster(resp)
            o == [Call(op[w], "paymaster", resp) EXCEPT
                    !.paymaster_ret = Ret(ret),
                    !.sent = Append(@, [ch |-> "paymaster", tx |-> "raw_tx"])]
        IN  SetOp(w, IF resp.exc THEN Return(o, 0)
                     ELSE IF tries_fallback(ret[1])
                          THEN [o EXCEPT !.stage = "rpc"]
                          ELSE ExecuteReturns(o, TRUE))
    /\ OpFrame

\* _execute_transaction: the paymaster is sent the original transaction
SendPaymaster(w) ==
    /\ InSwap(w, "paymaster")
    /\ \E resp \in PaymasterResponses :
        LET ret == send_transaction_paymaster(resp)
            o == [Call(op[w], "paymaster", resp) EXCEPT
                    !.paymaster_ret = Ret(ret),
                    !.sent = Append(@, [ch |-> "paymaster", tx |-> "raw_tx"])]
        IN  SetOp(w, IF tries_fallback(ret[1])
                     THEN [o EXCEPT !.stage = "rpc"]
                     ELSE ExecuteReturns(o, TRUE))
    /\ OpFrame

\* _execute_transaction: the direct RPC fallback is sent serialized_tx
SendRpc(w) ==
    /\ InSwap(w, "rpc")
    /\ \E resp \in SendTransactionResponses :
        LET ret == send_transaction_rpc(resp)
            o == [Call(op[w], "sendTransaction", resp) EXCEPT
                    !.rpc_ret = Ret(ret),
                    !.sent = Append(@, [ch |-> "sendTransaction", tx |-> op[w].serialized_tx])]
        IN  SetOp(w, ExecuteReturns(o, ret[1]))
    /\ OpFrame

\* A slip: a failed operation raises out of perform_swap, through the
\* worker and through gather
PerformSwapReturn_raises(w) ==
    /\ InSwap(w, "balance")
    /\ \E value \in PerformSwapReturns :
        IF value = 0
        THEN /\ op' = [op EXCEPT ![w].stage = "raised"]
             /\ wpc' = [wpc EXCEPT ![w] = "raised"]
             /\ fleet' = [fleet EXCEPT !.pc = "raised"]
             /\ UNCHANGED <<keypairs, num_swaps, min_delay, max_delay, calc, cycle, stats, hist>>
        ELSE SetOp(w, Return(op[w], value)) /\ OpFrame

\* perform_swap as the fleet sees it: a call in flight returns 0 or the
\* quote's minimum output
PerformSwapReturn(w) ==
    /\ InSwap(w, "balance")
    /\ \E value \in PerformSwapReturns : SetOp(w, Return(op[w], value))
    /\ OpFrame

\* One call of calculate_adaptive_delay returns
CalculateAdaptiveDelay ==
    /\ calc.pc = "called"
    /\ \E base_delay \in uniform(calc.base_min, calc.base_max) :
        calc' = [calc EXCEPT !.pc = "returned", !.base_delay = base_delay,
                             !.result = calculate_adaptive_delay(base_delay, calc.failure_rate)]
    /\ UNCHANGED <<keypairs, num_swaps, min_delay, max_delay, fleet, wpc, cycle,
                   stats, op, hist>>

\* perform_swap when every channel answers well at the first try: the
\* quote's minimum output, which is positive, is returned
PerformSwapSucceeds(w) ==
    /\ InSwap(w, "balance")
    /\ \E value \in { v \in TokenMinOuts : v > 0 } : SetOp(w, Return(op[w], value))
    /\ OpFrame

\* ----------------------------------------------------------- specifications

Next ==
    \/ FleetStart
    \/ FleetGather
    \/ PrintFinalStatistics
    \/ \E w \in Workers : WorkerStart(w)
    \/ \E w \in Workers : WorkerRecord(w)
    \/ \E w \in Workers : WorkerWake(w)
    \/ \E w \in Workers : GetBalance(w)
    \/ \E w \in Workers : AirdropOfficial(w)
    \/ \E w \in Workers : AirdropFaucet(w)
    \/ \E w \in Workers : AirdropDevnet(w)
    \/ \E w \in Workers : ConfirmationDelay(w)
    \/ \E w \in Workers : RecheckBalance(w)
    \/ \E w \in Workers : GetSwapQuote(w)
    \/ \E w \in Workers : GetSwapTransaction(w)
    \/ \E w \in Workers : SignTransaction(w)
    \/ \E w \in Workers : SendPaymaster(w)
    \/ \E w \in Workers : SendRpc(w)

Spec == Init /\ [][Next]_vars

FleetNext ==
    \/ FleetStart
    \/ FleetGather
    \/ PrintFinalStatistics
    \/ \E w \in Workers : WorkerStart(w)
    \/ \E w \in Workers : WorkerRecord(w)
    \/ \E w \in Workers : WorkerWake(w)
    \/ \E w \in Workers : PerformSwapReturn(w)

FleetSpec == FleetInit /\ [][FleetNext]_vars

\* A finished run of one or two wallets, then the reports on its statistics
ReportInit == InitFor({<<1>>, <<1, 2>>}, {<<0, 0>>}, MaxSwaps)

ReportNext ==
    \/ FleetStart
    \/ FleetGather
    \/ PrintFinalStatistics
    \/ CalculateWorkerEfficiency
    \/ PrintEfficiencyReport
    \/ GenerateSummaryReport
    \/ \E w \in Workers : WorkerStart(w)
    \/ \E w \in Workers : WorkerRecord(w)
    \/ \E w \in Workers : WorkerWake(w)
    \/ \E w \in Workers : PerformSwapReturn(w)

ReportSpec == ReportInit /\ [][ReportNext]_vars

\* A slip: the cancelled call is handled like any other error of perform_swap
\* and the worker counts it as failed
Interrupt_counts_failure ==
    /\ fleet.pc = "gather"
    /\ \A w \in Workers : ~InSwap(w, "returned")
    /\ fleet' = [fleet EXCEPT !.pc = "interrupted"]
    /\ wpc' = [w \in Workers |-> IF wpc[w] = "done" THEN "done" ELSE "cancelled"]
    /\ stats' = [w \in Workers |->
                    IF wpc[w] = "swap"
                    THEN record_result(stats[w], 0, op[w].amount_in)
                    ELSE stats[w]]
    /\ UNCHANGED <<keypairs, num_swaps, min_delay, max_delay, calc, cycle, op, hist>>

\* The process is interrupted while run_multiple_workers awaits gather: the
\* tasks are cancelled, and each unfinished worker gets CancelledError at the
\* await it is suspended in (its perform_swap call or its sleep). Neither
\* "except Exception" of perform_swap nor any code of worker catches it, so
\* the worker ends there; main logs the interruption. A worker is never
\* suspended between the return of perform_swap and its counting.
Interrupt ==
    /\ fleet.pc = "gather"
    /\ \A w \in Workers : ~InSwap(w, "returned")
    /\ fleet' = [fleet EXCEPT !.pc = "interrupted"]
    /\ wpc' = [w \in Workers |-> IF wpc[w] = "done" THEN "done" ELSE "cancelled"]
    /\ UNCHANGED <<keypairs, num_swaps, min_delay, max_delay, calc, cycle, stats, op, hist>>

\* The steps of worker w when its operations are modelled by their return
WorkerNext(w) ==
    \/ WorkerStart(w)
    \/ WorkerRecord(w)
    \/ WorkerWake(w)
    \/ PerformSwapReturn(w)

\* A fleet of two different wallets
PairInit == InitFor({<<1, 2>>}, {<<0, 0>>}, MaxSwaps)

PairSpec == PairInit /\ [][FleetNext]_vars

\* A fleet run that may be interrupted
InterruptInit == InitFor({<<1, 2>>}, {<<0, 0>>}, MaxSwaps)

InterruptNext ==
    \/ FleetStart
    \/ FleetGather
    \/ PrintFinalStatistics
    \/ Interrupt
    \/ \E w \in Workers : WorkerStart(w)
    \/ \E w \in Workers : WorkerRecord(w)
    \/ \E w \in Workers : WorkerWake(w)
    \/ \E w \in Workers : PerformSwapReturn(w)

InterruptSpec == InterruptInit /\ [][InterruptNext]_vars

\* The same fleet when the event loop runs every task that can run and every
\* network call returns or times out
FairSpec ==
    /\ PairInit
    /\ [][FleetNext]_vars
    /\ WF_vars(FleetStart)
    /\ WF_vars(FleetGather)
    /\ WF_vars(PrintFinalStatistics)
    /\ \A w \in 1..2 : WF_vars(w \in Workers /\ WorkerNext(w))

LoopSpec == LoopInit /\ [][FleetNext]_vars

\* Three wallets, two swaps each, every channel answering well
ScenarioInit == InitFor({<<1, 2, 3>>}, {<<0, 0>>}, 2) /\ num_swaps = 2

ScenarioNext ==
    \/ FleetStart
    \/ FleetGather
    \/ PrintFinalStatistics
    \/ \E w \in Workers : WorkerStart(w)
    \/ \E w \in Workers : WorkerRecord(w)
    \/ \E w \in Workers : WorkerWake(w)
    \/ \E w \in Workers : PerformSwapSucceeds(w)

ScenarioSpec == ScenarioInit /\ [][ScenarioNext]_vars

\* calculate_adaptive_delay on its own: any range, any failure rate
DelayInit ==
    /\ keypairs = <<1>>
    /\ num_swaps = 1
    /\ min_delay = 0
    /\ max_delay = 0
    /\ fleet = [pc |-> "start", total_stats |-> NoTotals, report |-> NoReport]
    /\ wpc = [w \in Workers |-> "not_started"]
    /\ cycle = [w \in Workers |-> 0]
    /\ stats = [w \in Workers |-> NoStats]
    /\ op = [w \in Workers |-> IdleOp]
    /\ hist = [w \in Workers |-> NoHist]
    /\ \E range \in DelayRanges, failure_rate \in FailureRates :
        calc = [NoCalc EXCEPT !.pc = "called", !.base_min = range[1],
                              !.base_max = range[2], !.failure_rate = failure_rate]

DelayNext == CalculateAdaptiveDelay

DelaySpec == DelayInit /\ [][DelayNext]_vars

\* ----------------------------------------------------------------- start-up

\* A Python float: a number of milliseconds, or the not-a-number value
Float_(ms) == [nan |-> FALSE, ms |-> ms]

NaN == [nan |-> TRUE, ms |-> 0]

\* Python's < and > on floats: every comparison with a NaN is False
float_lt(a, b) == ~a.nan /\ ~b.nan /\ a.ms < b.ms

float_gt(a, b) == ~a.nan /\ ~b.nan /\ a.ms > b.ms

\* What the user may type at a numeric prompt
TypedSwaps == { "0", "1", "2", "-1", "many" }

TypedDelays == { "0", "0.04", "1", "-1", "nan", "soon" }

\* int(input()): the number, or ValueError
python_int(text) ==
    CASE text = "0" -> [ok |-> TRUE, value |-> 0]
      [] text = "1" -> [ok |-> TRUE, value |-> 1]
      [] text = "2" -> [ok |-> TRUE, value |-> 2]
      [] text = "-1" -> [ok |-> TRUE, value |-> 0 - 1]
      [] OTHER -> [ok |-> FALSE, value |-> 0]

\* float(input()): the number of seconds (kept in ms), NaN, or ValueError
python_float(text) ==
    CASE text = "0" -> [ok |-> TRUE, value |-> Float_(0)]
      [] text = "0.04" -> [ok |-> TRUE, value |-> Float_(40)]
      [] text = "1" -> [ok |-> TRUE, value |-> Float_(1000)]
      [] text = "-1" -> [ok |-> TRUE, value |-> Float_(0 - 1000)]
      [] text = "nan" -> [ok |-> TRUE, value |-> NaN]
      [] OTHER -> [ok |-> FALSE, value |-> Float_(0)]

\* utils: the three tests that reject the parameters
validate_input_params(swaps, low, high) ==
    IF swaps <= 0 THEN FALSE
    ELSE IF float_lt(low, Float_(0)) \/ float_lt(high, Float_(0)) THEN FALSE
    ELSE IF float_gt(low, high) THEN FALSE
    ELSE TRUE

\* The replies of the RPC node to getGenesisHash and to getSlot
GenesisReplies ==
    { [exc |-> TRUE, status |-> 0, has_result |-> FALSE, result |-> "none"],
      [exc |-> FALSE, status |-> 500, has_result |-> FALSE, result |-> "none"],
      [exc |-> FALSE, status |-> 200, has_result |-> FALSE, result |-> "none"],
      [exc |-> FALSE, status |-> 200, has_result |-> TRUE, result |-> "other"],
      [exc |-> FALSE, status |-> 200, has_result |-> TRUE, result |-> "FOGO_GENESIS_HASH"] }

SlotReplies ==
    { [exc |-> TRUE, status |-> 0, has_result |-> FALSE, result |-> 0],
      [exc |-> FALSE, status |-> 500, has_result |-> FALSE, result |-> 0],
      [exc |-> FALSE, status |-> 200, has_result |-> FALSE, result |-> 0],
      [exc |-> FALSE, status |-> 200, has_result |-> TRUE, result |-> 7],
      [exc |-> FALSE, status |-> 200, has_result |-> TRUE, result |-> 8] }

NoReply == [exc |-> FALSE, status |-> 0, has_result |-> FALSE, result |-> 0]

\* network: two reads of the slot, the second strictly later than the first
_check_network_activity(first, second) ==
    IF first.exc THEN FALSE
    ELSE IF first.status = 200 /\ first.has_result
    THEN IF second.exc THEN FALSE
         ELSE second.status = 200 /\ second.has_result
              /\ second.result > first.result
    ELSE FALSE

\* network: the genesis hash is the expected one and the network is active
verify_fogo_connection(genesis, first, second) ==
    IF genesis.exc THEN FALSE
    ELSE IF genesis.status = 200
    THEN IF genesis.has_result
         THEN IF genesis.result = "FOGO_GENESIS_HASH"
              THEN _check_network_activity(first, second)
              ELSE FALSE
         ELSE FALSE
    ELSE FALSE

\* private_key.txt: its lines; 0 is a line that is no secret key
KeyFiles == { <<>>, <<0>>, <<1>>, <<0, 1>>, <<1, 2>> }

\* utils: the lines that decode to a key, in the order of the file
load_keypairs_from_file(lines) == SelectSeq(lines, LAMBDA line : line # 0)

\* What main has been given before its first step
StartupInit ==
    /\ \E swaps \in TypedSwaps, low \in TypedDelays, high \in TypedDelays, file \in KeyFiles :
          fleet = [pc |-> "configure", total_stats |-> NoTotals, report |-> NoReport,
                   typed |-> [num_swaps |-> swaps, min_delay |-> low, max_delay |-> high],
                   key_file |-> file,
                   genesis |-> NoReply, first_slot |-> NoReply, second_slot |-> NoReply,
                   connection_ok |-> FALSE]
    /\ keypairs = <<>>
    /\ num_swaps = 0
    /\ min_delay = Float_(0)
    /\ max_delay = Float_(0)
    /\ calc = NoCalc
    /\ wpc = [w \in Workers |-> "not_started"]
    /\ cycle = [w \in Workers |-> 0]
    /\ stats = [w \in Workers |-> NoStats]
    /\ op = [w \in Workers |-> IdleOp]
    /\ hist = [w \in Workers |-> NoHist]

\* main: get_user_configuration; no configuration, no run
GetUserConfiguration ==
    /\ fleet.pc = "configure"
    /\ LET swaps == python_int(fleet.typed.num_swaps)
           low == python_float(fleet.typed.min_delay)
           high == python_float(fleet.typed.max_delay)
       IN  IF swaps.ok /\ low.ok /\ high.ok
              /\ validate_input_params(swaps.value, low.value, high.value)
           THEN /\ num_swaps' = swaps.value
                /\ min_delay' = low.value
                /\ max_delay' = high.value
                /\ fleet' = [fleet EXCEPT !.pc = "connect"]
           ELSE /\ fleet' = [fleet EXCEPT !.pc = "returned"]
                /\ UNCHANGED <<num_swaps, min_delay, max_delay>>
    /\ UNCHANGED <<keypairs, calc, wpc, cycle, stats, op, hist>>

\* main: setup_network_connection; no verified connection, no run
SetupNetworkConnection ==
    /\ fleet.pc = "connect"
    /\ \E genesis \in GenesisReplies, first \in SlotReplies, second \in SlotReplies :
          LET connection_ok == verify_fogo_connection(genesis, first, second)
          IN  fleet' = [fleet EXCEPT !.genesis = genesis, !.first_slot = first,
                                     !.second_slot = second,
                                     !.connection_ok = connection_ok,
                                     !.pc = IF connection_ok THEN "load" ELSE "returned"]
    /\ UNCHANGED <<keypairs, num_swaps, min_delay, max_delay, calc, wpc, cycle, stats, op, hist>>

\* main: load_configuration; no key, no run
LoadConfiguration ==
    /\ fleet.pc = "load"
    /\ LET loaded == load_keypairs_from_file(fleet.key_file)
       IN  IF loaded = <<>>
           THEN /\ fleet' = [fleet EXCEPT !.pc = "returned"]
                /\ UNCHANGED <<keypairs, wpc, cycle, stats, op, hist>>
           ELSE /\ fleet' = [fleet EXCEPT !.pc = "checks"]
                /\ keypairs' = loaded
                /\ wpc' = [w \in DOMAIN loaded |-> "not_started"]
                /\ cycle' = [w \in DOMAIN loaded |-> 0]
                /\ stats' = [w \in DOMAIN loaded |-> NoStats]
                /\ op' = [w \in DOMAIN loaded |-> IdleOp]
                /\ hist' = [w \in DOMAIN loaded |-> NoHist]
    /\ UNCHANGED <<num_swaps, min_delay, max_delay, calc>>

\* main: pre_execution_checks, then run_multiple_workers is called; an
\* exception of the checks is caught by main, which then returns
PreExecutionChecks ==
    /\ fleet.pc = "checks"
    /\ \E raised \in BOOLEAN :
          fleet' = [fleet EXCEPT !.pc = IF raised THEN "returned" ELSE "start"]
    /\ UNCHANGED <<keypairs, num_swaps, min_delay, max_delay, calc, wpc, cycle, stats, op, hist>>

\* main up to the first operation of every worker
StartupNext ==
    \/ GetUserConfiguration
    \/ SetupNetworkConnection
    \/ LoadConfiguration
    \/ PreExecutionChecks
    \/ FleetStart
    \/ \E w \in Workers : WorkerStart(w)

StartupSpec == StartupInit /\ [][StartupNext]_vars

\* ------------------------------------------------------------------ claims

Recorded(w) == stats[w].successful_swaps + stats[w].failed_swaps

Last(seq) == seq[Len(seq)]

RECURSIVE Count(_, _)
Count(seq, x) ==
    IF seq = <<>> THEN 0
    ELSE (IF Head(seq) = x THEN 1 ELSE 0) + Count(Tail(seq), x)

IsPrefix(a, b) == Len(a) <= Len(b) /\ a = SubSeq(b, 1, Len(a))

\* A perform_swap call of worker w has started and not yet returned
InFlight(w) == wpc[w] = "swap" /\ op[w].stage # "returned"

\* The remote call that has just answered in worker w's operation
JustCalled(w, channel) ==
    wpc[w] = "swap" /\ op[w].calls # <<>> /\ Last(op[w].calls) = channel

\* C1: a worker loop records exactly one outcome per operation: k outcomes
\* after the k-th iteration, whatever the channels answered, and num_swaps
\* outcomes when the loop has ended.
C1_ExactlyNOutcomes ==
    \A w \in Workers :
        /\ wpc[w] = "swap" => Recorded(w) = cycle[w]
        /\ wpc[w] = "sleep" => Recorded(w) = cycle[w] + 1
        /\ wpc[w] = "done" => Recorded(w) = num_swaps

C1_Witness ==
    \E w \in Workers :
        /\ wpc[w] = "done"
        /\ num_swaps = MaxSwaps
        /\ stats[w].failed_swaps > 0
        /\ stats[w].successful_swaps > 0

\* C2: the operations of one loop run in order: while operation i+1 is under
\* way (from its balance query on), exactly i operations have started before
\* it, all i have returned, all i outcomes are recorded and i delays have
\* elapsed.
C2_StrictlySequential ==
    \A w \in Workers :
        wpc[w] = "swap" =>
            /\ hist[w].ops_started = cycle[w] + 1
            /\ hist[w].ops_returned = cycle[w] + (IF InFlight(w) THEN 0 ELSE 1)
            /\ Recorded(w) = cycle[w]
            /\ hist[w].sleeps = cycle[w]

C2_Witness ==
    \E w \in Workers :
        /\ InSwap(w, "balance")
        /\ cycle[w] = 1
        /\ hist[w].ops_returned = 1
        /\ hist[w].sleeps = 1

\* C3: no wallet has two swap operations in flight at once.
C3_OneInFlightPerWallet ==
    \A w1, w2 \in Workers :
        (w1 # w2 /\ keypairs[w1] = keypairs[w2]) => ~(InFlight(w1) /\ InFlight(w2))

\* C4: request_airdrop returns true exactly when one of its channels reported
\* success, the "already funded" answers of the primary channel included, and
\* false exactly when all four channels were tried and failed.
FUNDING_ORDER == <<"requestAirdrop">> \o FAUCET_ENDPOINTS \o <<"devnet">>

C4_AirdropIffSomeChannel ==
    \A w \in Workers :
        LET o == op[w]
            some_ok == \E k \in DOMAIN o.funding : o.funding[k].ok
            all_failed ==
                /\ [k \in DOMAIN o.funding |-> o.funding[k].ch] = FUNDING_ORDER
                /\ \A k \in DOMAIN o.funding : ~o.funding[k].ok
        IN  /\ o.airdrop_ret.done =>
                /\ o.airdrop_ret.success <=> some_ok
                /\ ~o.airdrop_ret.success <=> all_failed
            /\ (JustCalled(w, "requestAirdrop")
                  /\ o.resp \in {RpcResult(200, JsonStr(SIG)),
                                 RpcFailure(200, MSG_RATE_LIMIT),
                                 RpcFailure(200, MSG_ALREADY)})
                => o.airdrop_ret.done /\ o.airdrop_ret.success

C4_Witness ==
    \E w \in Workers :
        /\ op[w].airdrop_ret.done
        /\ op[w].airdrop_ret.success
        /\ Len(op[w].funding) = Len(FUNDING_ORDER)

\* C5: the funding channels are contacted in the fixed order primary,
\* endpoint 1, endpoint 2, devnet, each at most once, and none after a
\* channel has reported success.
IsFundingChannel(channel) == \E k \in DOMAIN FUNDING_ORDER : FUNDING_ORDER[k] = channel

C5_FundingOrderShortCircuit ==
    \A w \in Workers :
        LET o == op[w]
            contacted == SelectSeq(o.calls, IsFundingChannel)
        IN  /\ IsPrefix(contacted, FUNDING_ORDER)
            /\ Len(o.funding) = Len(contacted)
            /\ \A k \in DOMAIN o.funding :
                  o.funding[k].ok => k = Len(contacted)

C5_Witness ==
    \E w \in Workers :
        /\ InSwap(w, "returned")
        /\ Len(op[w].funding) = 2
        /\ op[w].funding[2].ok
        /\ Len(op[w].calls) > 4

\* C6: _execute_transaction returns true exactly when the paymaster or the
\* direct RPC channel accepted, and false exactly when both were tried and
\* both failed.
C6_ExecuteIffSomeChannel ==
    \A w \in Workers :
        LET o == op[w]
        IN  o.exec_ret.done =>
                /\ o.exec_ret.success <=>
                      (o.paymaster_ret.success \/ o.rpc_ret.success)
                /\ ~o.exec_ret.success <=>
                      /\ o.paymaster_ret.done /\ ~o.paymaster_ret.success
                      /\ o.rpc_ret.done /\ ~o.rpc_ret.success

C6_Witness ==
    \E w \in Workers :
        /\ op[w].exec_ret.done
        /\ op[w].exec_ret.success
        /\ ~op[w].paymaster_ret.success
        /\ op[w].rpc_ret.success

\* C7: within one operation no submission channel is contacted twice, the
\* fallback is not contacted once the paymaster has accepted, and nothing is
\* sent after the fallback has accepted (the placeholder included).
C7_NoResendAfterAccept ==
    \A w \in Workers :
        LET o == op[w]
        IN  /\ Count(o.calls, "paymaster") <= 1
            /\ Count(o.calls, "sendTransaction") <= 1
            /\ o.paymaster_ret.success => Count(o.calls, "sendTransaction") = 0
            /\ o.rpc_ret.success => Last(o.calls) = "sendTransaction"
            /\ Len(o.sent) = Count(o.calls, "paymaster") + Count(o.calls, "sendTransaction")

C7_Witness ==
    \E w \in Workers :
        /\ InSwap(w, "returned")
        /\ op[w].paymaster_ret.success
        /\ Last(op[w].calls) = "paymaster"

\* C8 as stated: a paymaster answer of status 200 and body "abc1234567" in
\* quotes makes the pipeline return (true, "abc1234567") without the fallback.
C8_TenCharacterReferenceAccepted ==
    \A w \in Workers :
        (JustCalled(w, "paymaster") /\ op[w].resp = HttpText(200, Quoted(REF10)))
            => /\ op[w].paymaster_ret = Ret(<<TRUE, REF10>>)
               /\ op[w].exec_ret = Ret(<<TRUE, EMPTY>>)
               /\ op[w].stage = "returned"

\* C8 amended: the quoted 11-character body "abc12345678" makes the paymaster
\* channel return (true, "abc12345678") and the pipeline return true without
\* the fallback; the quoted 10-character body "abc1234567" is not longer than
\* 10 characters, so the channel returns (false, "") and the fallback is next.
C8_ElevenCharacterReferenceAccepted ==
    \A w \in Workers :
        /\ (JustCalled(w, "paymaster") /\ op[w].resp = HttpText(200, Quoted(REF11)))
            => /\ op[w].paymaster_ret = Ret(<<TRUE, REF11>>)
               /\ op[w].exec_ret = Ret(<<TRUE, EMPTY>>)
               /\ op[w].stage = "returned"
               /\ Count(op[w].calls, "sendTransaction") = 0
        /\ (JustCalled(w, "paymaster") /\ op[w].resp = HttpText(200, Quoted(REF10)))
            => /\ op[w].paymaster_ret = Ret(Failed)
               /\ ~op[w].exec_ret.done
               /\ op[w].stage = "rpc"

C8_Witness ==
    \E w \in Workers :
        /\ JustCalled(w, "paymaster")
        /\ op[w].resp = HttpText(200, Quoted(REF11))
        /\ op[w].stage = "returned"

\* C9: whatever makes the paymaster not accept (status 500 with 5663009 in
\* the body, another status, a 200 answer with an empty, null or too short
\* body, a transport exception), the pipeline goes on to the fallback, which
\* it contacts exactly once before it returns.
PrimaryRefusals ==
    { TransportError, HttpText(500, ERROR_BODY), HttpText(500, MSG_BUSY),
      HttpText(400, Quoted(REF11)), HttpText(200, EMPTY), HttpText(200, NULL_TEXT),
      HttpText(200, Quoted(NULL_TEXT)), HttpText(200, Quoted(REF10)) }

C9_FallbackAfterPrimaryFailure ==
    \A w \in Workers :
        LET o == op[w]
        IN  /\ (JustCalled(w, "paymaster")
                  /\ (o.resp \in PrimaryRefusals \/ ~o.paymaster_ret.success))
                => /\ o.stage = "rpc"
                   /\ ~o.paymaster_ret.success
                   /\ ~o.exec_ret.done
            /\ (o.exec_ret.done /\ ~o.paymaster_ret.success)
                => /\ o.rpc_ret.done
                   /\ Count(o.calls, "sendTransaction") = 1

C9_Witness ==
    \E w \in Workers :
        /\ JustCalled(w, "sendTransaction")
        /\ op[w].sent = << [ch |-> "paymaster", tx |-> "raw_tx"],
                           [ch |-> "sendTransaction", tx |-> "signed"] >>
        /\ op[w].exec_ret.done

\* C10: send_transaction_rpc reports success exactly for a status 200 answer
\* with a non-empty result id; it returns that id, or "placeholder" for the
\* 64-character all-ones id, and (false, "") for anything else.
C10_RpcChannelClassification ==
    \A w \in Workers :
        JustCalled(w, "sendTransaction") =>
            LET r == op[w].resp
                has_id ==
                    /\ ~r.exc
                    /\ r.status = 200
                    /\ r.json_ok /\ r.has_result
                    /\ r.result.t = "str" /\ Len(r.result.s) > 0
                all_ones ==
                    /\ Len(r.result.s) = 64
                    /\ \A k \in 1..Len(r.result.s) : r.result.s[k] = "1"
            IN  /\ op[w].rpc_ret.done
                /\ op[w].rpc_ret.success <=> has_id
                /\ has_id => op[w].rpc_ret.ref =
                                IF all_ones THEN PLACEHOLDER ELSE r.result.s
                /\ ~has_id => op[w].rpc_ret.ref = EMPTY

C10_Witness ==
    \E w \in Workers :
        /\ JustCalled(w, "sendTransaction")
        /\ op[w].resp = RpcResult(200, JsonStr(Chars(64, "1")))
        /\ op[w].rpc_ret = Ret(<<TRUE, PLACEHOLDER>>)

\* The worker's operation makes a remote call in this step
CallsNow(w) ==
    /\ wpc[w] = "swap" /\ wpc'[w] = "swap"
    /\ Len(op'[w].calls) = Len(op[w].calls) + 1

Called(o, channels) == \E k \in DOMAIN o.calls : o.calls[k] \in channels

LATER_STAGES == {"quote", "build", "paymaster", "sendTransaction"}

\* The balance/funding gate of operation o is open: the first balance was
\* enough, or funding succeeded and the balance queried again covers the amount
GatePassed(o) ==
    /\ o.calls # <<>> /\ Last(o.calls) = "getBalance"
    /\ ~o.balance.is_none
    /\ IF o.calls = <<"getBalance">>
       THEN o.balance.int >= o.amount_in \/ o.balance.int > USABLE_BALANCE
       ELSE /\ o.airdrop_ret.done /\ o.airdrop_ret.success
            /\ o.balance.int >= o.amount_in

\* C11: perform_swap goes through balance query, optional funding, quote,
\* build, submit in that order and stops at the first stage that fails: a
\* quote is requested only after the balance/funding gate passed, a build only
\* after the quote succeeded, a submission channel only after the build
\* succeeded, and nothing is called once the operation has returned.
C11_StagesInOrder ==
    [][\A w \in Workers :
        CallsNow(w) =>
            LET o == op[w]
                c == Last(op'[w].calls)
            IN  /\ o.stage # "returned"
                /\ IsPrefix(o.calls, op'[w].calls)
                /\ c = "getBalance" =>
                     \/ o.calls = <<>>
                     \/ /\ IsFundingChannel(Last(o.calls))
                        /\ Count(o.calls, "getBalance") = 1
                /\ IsFundingChannel(c) =>
                     /\ o.calls # <<>>
                     /\ ~Called(o, LATER_STAGES)
                     /\ ~GatePassed(o)
                /\ c = "quote" => ~Called(o, LATER_STAGES) /\ GatePassed(o)
                /\ c = "build" => Last(o.calls) = "quote" /\ o.quote.ok
                /\ c = "paymaster" =>
                     Last(o.calls) = "build" /\ _get_swap_transaction(o.resp)
                /\ c = "sendTransaction" => Last(o.calls) = "paymaster"
     ]_vars

C11_Witness ==
    \E w \in Workers :
        /\ op[w].stage = "returned"
        /\ op[w].calls = <<"getBalance", "requestAirdrop", "getBalance", "quote",
                           "build", "paymaster", "sendTransaction">>

\* The balance b needs funding for the amount: below it and not usable
NeedsFunding(b, amount_in) ==
    ~b.is_none /\ b.int < amount_in /\ b.int <= USABLE_BALANCE

Submitted(w) ==
    /\ wpc[w] = "swap" /\ op[w].stage = "returned"
    /\ op[w].quote.ok /\ Called(op[w], {"build"})
    /\ op[w].exec_ret.done

\* C13 as stated: after quote and build, perform_swap returns the quote's
\* minimum output when the pipeline reported success, and when it reported
\* failure the minimum output again if that is nonzero, else 0.
C13_NonzeroMinOutReturned ==
    \A w \in Workers :
        Submitted(w) =>
            LET min_out == op[w].quote.token_min_out
            IN  op[w].result =
                    IF op[w].exec_ret.success THEN min_out
                    ELSE IF min_out # 0 THEN min_out ELSE 0

\* C13, amended: after a reported failure the minimum output is returned
\* only when it is greater than zero, and 0 otherwise.
C13_PositiveMinOutReturned ==
    \A w \in Workers :
        Submitted(w) =>
            LET min_out == op[w].quote.token_min_out
            IN  op[w].result =
                    IF op[w].exec_ret.success THEN min_out
                    ELSE IF min_out > 0 THEN min_out ELSE 0

C13_Witness ==
    \E w \in Workers :
        /\ Submitted(w)
        /\ ~op[w].exec_ret.success
        /\ op[w].quote.token_min_out > 0
        /\ op[w].result = op[w].quote.token_min_out

\* Where a perform_swap call can be: waiting for one of its awaits, or returned
STAGES ==
    {"idle", "balance", "airdrop_official", "airdrop_faucet", "airdrop_devnet",
     "confirm_sleep", "rebalance", "quote", "build", "sign", "paymaster", "rpc",
     "returned"}

\* C14: no exception leaves perform_swap: whatever was raised at a stage (a
\* transport exception in a remote call, a TypeError in perform_swap itself),
\* the call is at one of its awaits or has returned, and what it returns to
\* the worker loop is an integer.
C14_NoExceptionEscapes ==
    \A w \in Workers :
        /\ op[w].stage \in STAGES
        /\ op[w].stage = "returned" => op[w].result \in Int
        /\ op[w].caught => op[w].stage = "returned" /\ op[w].result = 0

C14_Witness ==
    \E w \in Workers :
        /\ op[w].stage = "returned"
        /\ op[w].caught
        /\ op[w].exc_at = {"balance", "funding"}
        /\ op[w].result = 0

\* The worker records the outcome of its operation in this step
RecordsNow(w) == wpc[w] = "swap" /\ wpc'[w] # "swap"

RecordedAsFailed(w) ==
    /\ stats'[w].failed_swaps = stats[w].failed_swaps + 1
    /\ stats'[w].successful_swaps = stats[w].successful_swaps
    /\ stats'[w].total_volume = stats[w].total_volume

\* C15 as stated: an operation in which a transport exception occurred at any
\* step (balance query, funding channel, quote, build, submission channel)
\* returns 0 and is recorded as failed.
C15_AnyTransportExceptionFails ==
    [][\A w \in Workers :
        (RecordsNow(w) /\ op[w].exc_at # {}) =>
            op[w].result = 0 /\ RecordedAsFailed(w)
     ]_vars

\* C15, amended: an operation in which a transport exception occurred at the
\* quote or at the build step returns 0 and is recorded as failed.
C15_QuoteOrBuildExceptionFails ==
    [][\A w \in Workers :
        (RecordsNow(w) /\ op[w].exc_at \cap {"quote", "build"} # {}) =>
            op[w].result = 0 /\ RecordedAsFailed(w)
     ]_vars

C15_Witness ==
    \E w \in Workers :
        /\ op[w].stage = "returned"
        /\ "build" \in op[w].exc_at
        /\ op[w].result = 0
        /\ stats[w].failed_swaps = 1

\* A transport exception at the balance query, at a funding channel and at a
\* submission channel, and the operation still returns a positive amount
C15_SuccessAfterExceptions ==
    \E w \in Workers :
        /\ op[w].stage = "returned"
        /\ op[w].exc_at = {"balance", "funding", "submit"}
        /\ op[w].result > 0

\* C16: calculate_adaptive_delay multiplies the base delay it draws from
\* [min_delay, max_delay] by 2.0 when failure_rate > 0.5, by 1.5 when
\* 0.3 < failure_rate <= 0.5 and by 1.0 when failure_rate <= 0.3 (so 0.6
\* gives 2.0, 0.35 gives 1.5, 0.1, and exactly 0.3, give 1.0 and exactly 0.5
\* gives 1.5).
C16_AdaptiveMultiplier ==
    calc.pc = "returned" =>
        LET n == calc.failure_rate.num
            d == calc.failure_rate.den
            tenths == IF 2 * n > d THEN 20
                      ELSE IF 10 * n > 3 * d THEN 15
                      ELSE 10
        IN  /\ calc.base_min <= calc.base_delay
            /\ calc.base_delay <= calc.base_max
            /\ 10 * calc.result = calc.base_delay * tenths
            /\ (10 * n = 6 * d /\ calc.base_delay = 1000) => calc.result = 2000
            /\ (100 * n = 35 * d /\ calc.base_delay = 1000) => calc.result = 1500
            /\ (10 * n = d /\ calc.base_delay = 1000) => calc.result = 1000
            /\ (10 * n = 3 * d /\ calc.base_delay = 1000) => calc.result = 1000

C16_Witness ==
    /\ calc.pc = "returned"
    /\ calc.failure_rate = Rate(5, 10)
    /\ calc.base_min = 40 /\ calc.base_max = 2000
    /\ calc.base_delay = 1000
    /\ calc.result = 1500

\* C17: at every adaptive sleep the failure rate used is failed / (failed +
\* successful) over the operations completed so far in the loop: the
\* denominator, cycle + 1, equals failed_swaps + successful_swaps and is
\* not zero.
C17_FailureRateDenominator ==
    \A w \in Workers :
        wpc[w] = "sleep" =>
            LET sleep == hist[w].sleep
            IN  /\ sleep.total_attempts = cycle[w] + 1
                /\ sleep.total_attempts = stats[w].failed_swaps + stats[w].successful_swaps
                /\ sleep.total_attempts > 0
                /\ sleep.failure_rate =
                      Rate(stats[w].failed_swaps,
                           stats[w].failed_swaps + stats[w].successful_swaps)

C17_Witness ==
    \E w \in Workers :
        /\ wpc[w] = "sleep"
        /\ cycle[w] = 2
        /\ hist[w].sleep.failure_rate = Rate(2, 3)
        /\ stats[w].successful_swaps = 1

\* C18: a loop of N operations sleeps exactly N-1 times, once after each
\* operation but the last, and never for less than MIN_TRANSACTION_DELAY,
\* also when min_delay = max_delay = 0.
C18_DelaysBetweenOperations ==
    \A w \in Workers :
        /\ wpc[w] = "swap" => hist[w].sleeps = cycle[w] /\ cycle[w] < num_swaps
        /\ wpc[w] = "sleep" =>
              /\ hist[w].sleeps = cycle[w]
              /\ cycle[w] < num_swaps - 1
              /\ hist[w].sleep.sleep_time >= MIN_TRANSACTION_DELAY
        /\ wpc[w] = "done" =>
              /\ hist[w].sleeps = num_swaps - 1
              /\ hist[w].ops_returned = num_swaps

C18_Witness ==
    \E w \in Workers :
        /\ wpc[w] = "sleep"
        /\ min_delay = 0 /\ max_delay = 0
        /\ hist[w].sleeps = 2
        /\ hist[w].sleep.sleep_time = MIN_TRANSACTION_DELAY

\* The sum of one statistic over the first n workers
RECURSIVE SumStats(_, _)
SumStats(n, field) ==
    IF n = 0 THEN 0 ELSE stats[n][field] + SumStats(n - 1, field)

\* The sum of the amounts the first n workers have drawn
RECURSIVE SumChosen(_)
SumChosen(n) == IF n = 0 THEN 0 ELSE hist[n].chosen + SumChosen(n - 1)

C20_JoinBarrier ==
    [][/\ (fleet.pc # "done" /\ fleet'.pc = "done") =>
            /\ \A w \in Workers : wpc[w] = "done" /\ wpc'[w] = "done"
            /\ fleet.total_stats = NoTotals
            /\ stats' = stats
       /\ fleet.pc # "done" => (fleet'.total_stats # NoTotals => fleet'.pc = "done")
       /\ fleet.pc \in {"done", "reported"} =>
            fleet'.total_stats = fleet.total_stats /\ stats' = stats /\ wpc' = wpc
     ]_vars

C20_Witness ==
    /\ fleet.pc = "reported"
    /\ Len(keypairs) = 2
    /\ stats[1].failed_swaps = 2
    /\ stats[2].successful_swaps = 2
    /\ fleet.total_stats.total_failed_swaps = 2
    /\ fleet.total_stats.total_successful_swaps = 2

\* Worker w takes a step of its loop
WorkerSteps(w) ==
    wpc'[w] # wpc[w] \/ op'[w] # op[w] \/ cycle'[w] # cycle[w] \/ hist'[w] # hist[w]

\* C21: a worker's statistics are created when the worker starts and are
\* changed only by a step of that worker: a step of worker a leaves the
\* statistics of every other worker b as they are.
C21_StatisticsOwnedByWorker ==
    [][\A a \in Workers :
        /\ wpc[a] = "not_started" => stats[a] = NoStats
        /\ (wpc[a] = "not_started" /\ wpc'[a] # "not_started") => stats'[a] = NewStats(a)
        /\ stats'[a] # stats[a] => WorkerSteps(a)
        /\ WorkerSteps(a) => \A b \in Workers \ {a} : stats'[b] = stats[b]
     ]_vars

C21_Witness ==
    /\ Len(keypairs) = 2
    /\ wpc[1] = "swap" /\ cycle[1] = 1
    /\ stats[1].failed_swaps = 1
    /\ wpc[2] = "sleep"
    /\ stats[2].successful_swaps = 1

\* C22: a failure in one wallet's loop, up to every one of its operations
\* failing, never aborts or alters another wallet's loop and never prevents
\* the fleet aggregate: no step of one worker changes anything of another,
\* every worker that has not finished can always take its next step, neither
\* a worker nor the fleet ever ends by an exception, and the totals, once
\* assembled, cover all workers with N recorded operations each.
C22_FailureIsolated ==
    [][/\ \A a \in Workers : WorkerSteps(a) =>
            \A b \in Workers \ {a} :
                /\ wpc'[b] = wpc[b] /\ cycle'[b] = cycle[b]
                /\ op'[b] = op[b] /\ hist'[b] = hist[b] /\ stats'[b] = stats[b]
       /\ fleet.pc \in {"start", "gather", "done", "reported"}
       /\ \A w \in Workers :
            /\ wpc[w] \in {"not_started", "swap", "sleep", "done"}
            /\ (fleet.pc = "gather" /\ wpc[w] # "done") => ENABLED WorkerNext(w)
       /\ fleet.pc \in {"done", "reported"} =>
            /\ \A w \in Workers : wpc[w] = "done" /\ Recorded(w) = num_swaps
            /\ fleet.total_stats.worker_count = Len(keypairs)
            /\ fleet.total_stats.total_successful_swaps
                 + fleet.total_stats.total_failed_swaps = Len(keypairs) * num_swaps
            /\ fleet.total_stats.total_failed_swaps = SumStats(Len(keypairs), "failed_swaps")
      ]_vars

\* Every operation of wallet 1 failed, every one of wallet 2 succeeded, and
\* the totals cover both
C22_Witness ==
    /\ Len(keypairs) = 2 /\ keypairs[1] # keypairs[2] /\ num_swaps >= 2
    /\ stats[1].failed_swaps = num_swaps
    /\ stats[2].successful_swaps = num_swaps
    /\ fleet.pc = "reported"
    /\ fleet.total_stats.worker_count = 2
    /\ fleet.total_stats.total_failed_swaps = num_swaps

\* C23: when every network call returns, a fleet run always ends with its
\* statistics reported and never by an error; if every operation of every
\* wallet failed, the report shows 0 successful and worker_count *
\* swaps_per_worker failed operations and a success rate of 0.
C23_TerminatesAndReports ==
    /\ <>(fleet.pc = "reported")
    /\ [](fleet.pc \in {"start", "gather", "done", "reported"})
    /\ []((fleet.pc = "reported" /\ \A w \in Workers : stats[w].successful_swaps = 0) =>
            /\ fleet.total_stats.total_successful_swaps = 0
            /\ fleet.total_stats.total_failed_swaps =
                 fleet.total_stats.worker_count * fleet.total_stats.swaps_per_worker
            /\ fleet.report.total_attempts = Len(keypairs) * num_swaps
            /\ fleet.report.success_rate = Rate(0, Len(keypairs) * num_swaps))

\* Two wallets, at least two operations each, all failed, and the report made
C23_Witness ==
    /\ fleet.pc = "reported"
    /\ Len(keypairs) = 2 /\ num_swaps >= 2
    /\ \A w \in Workers : stats[w].failed_swaps = num_swaps
    /\ fleet.total_stats.total_successful_swaps = 0
    /\ fleet.total_stats.total_failed_swaps = 2 * num_swaps

\* A worker is suspended at an await or has ended, not between the return of
\* perform_swap and the counting of its result
AtAwait(w) == ~InSwap(w, "returned")

\* C24: an operation in flight when the worker is interrupted is recorded as
\* neither success nor failure. Whenever a worker is suspended or has ended,
\* successful_swaps + failed_swaps is the number of its perform_swap calls
\* that have returned; the interrupt changes no counter and leaves the
\* operation in flight unreturned; no counter changes after it.
C24_PartialOperationNotRecorded ==
    [][\A w \in Workers :
        /\ AtAwait(w) => Recorded(w) = hist[w].ops_returned
        /\ (fleet.pc = "gather" /\ fleet'.pc = "interrupted") =>
            /\ stats' = stats /\ hist' = hist /\ op' = op
            /\ wpc[w] # "done" => wpc'[w] = "cancelled"
        /\ fleet.pc = "interrupted" => stats' = stats /\ hist' = hist
       ]_vars

\* Worker 1 has recorded one operation and is interrupted in its second one;
\* worker 2 had finished
C24_Witness ==
    /\ fleet.pc = "interrupted"
    /\ Len(keypairs) = 2
    /\ wpc[1] = "cancelled" /\ op[1].stage = "balance" /\ cycle[1] = 1
    /\ hist[1].ops_started = 2 /\ hist[1].ops_returned = 1 /\ Recorded(1) = 1
    /\ wpc[2] = "done" /\ Recorded(2) = 2

\* The balance query got no usable answer: transport failure, a status other
\* than 200, or a body without an integer at result.value
BalanceQueryFailed(resp) ==
    \/ resp.exc
    \/ resp.status # HTTP_OK
    \/ ~resp.json_ok
    \/ ~resp.has_value
    \/ resp.value.is_none

\* C25: get_balance_rpc makes a single query and returns 0 on any transport
\* failure, non-200 status or malformed response, never raising, so that the
\* first balance query of an operation, when it fails, is treated like a zero
\* balance and the operation goes to the funding path.
C25_FailedBalanceQueryIsZero ==
    [][\A w \in Workers :
        (InSwap(w, "balance") /\ CallsNow(w)) =>
            /\ op'[w].calls = <<"getBalance">>
            /\ BalanceQueryFailed(op'[w].resp) =>
                /\ op'[w].balance = Int_(0)
                /\ op'[w].stage = "airdrop_official"
                /\ ~op'[w].caught
       ]_vars

\* The primary funding channel answers in this step of worker w
OfficialAirdropAnswers(w) == InSwap(w, "airdrop_official") /\ CallsNow(w)

\* What the channel that has just answered reported to request_airdrop
ReportedOk(o) == Last(o.funding).ok

\* The reply carries a non-empty reference id
HasReference(resp) == ~resp.exc /\ resp.json_ok /\ resp.has_result /\ Truthy(resp.result)

\* The reply carries an error whose message has one of the four patterns
HasFundedPattern(resp) ==
    /\ ~resp.exc /\ resp.json_ok /\ resp.has_error
    /\ \E pattern \in AIRDROP_KEYWORDS : Contains(lower(resp.message), pattern)

\* C26 as stated: the primary funding channel reports success if the response
\* contains a non-empty reference id or its error message contains one of
\* 'limit', 'already', 'funded', 'recent' (case-insensitive), and failure for
\* any other response and any transport exception, after which the acquirer
\* moves on to the alternate endpoints.
C26_ReferenceOrPatternIsSuccess ==
    [][\A w \in Workers :
        OfficialAirdropAnswers(w) =>
            /\ ReportedOk(op'[w]) <=>
                (HasReference(op'[w].resp) \/ HasFundedPattern(op'[w].resp))
            /\ ~ReportedOk(op'[w]) =>
                op'[w].stage = "airdrop_faucet" /\ op'[w].faucet_idx = 1
       ]_vars

\* C26, amended: the same, for a response with HTTP status 200 only; a
\* response with any other status is reported as failure whatever its body.
C26_ReferenceOrPatternAt200IsSuccess ==
    [][\A w \in Workers :
        OfficialAirdropAnswers(w) =>
            /\ ReportedOk(op'[w]) <=>
                /\ ~op'[w].resp.exc /\ op'[w].resp.status = 200
                /\ HasReference(op'[w].resp) \/ HasFundedPattern(op'[w].resp)
            /\ ReportedOk(op'[w]) =>
                op'[w].airdrop_ret = Ret(<<TRUE, EMPTY>>) /\ op'[w].stage = "confirm_sleep"
            /\ ~ReportedOk(op'[w]) =>
                op'[w].stage = "airdrop_faucet" /\ op'[w].faucet_idx = 1
       ]_vars

\* The channel answered 200 with the error "Rate LIMIT" and reported success
C26_Witness ==
    \E w \in Workers :
        /\ wpc[w] = "swap" /\ op[w].stage = "confirm_sleep"
        /\ op[w].calls = <<"getBalance", "requestAirdrop">>
        /\ op[w].resp = RpcFailure(200, MSG_RATE_LIMIT)
        /\ op[w].funding = <<[ch |-> "requestAirdrop", ok |-> TRUE]>>

\* An alternate funding endpoint answers in this step of worker w
FaucetAnswers(w) == InSwap(w, "airdrop_faucet") /\ CallsNow(w)

\* What follows the answer of one alternate endpoint: success ends the
\* acquirer with True, failure goes to the next endpoint, and to the last
\* channel after the last endpoint
FaucetFollowUp(w) ==
    /\ ReportedOk(op'[w]) =>
        op'[w].airdrop_ret = Ret(<<TRUE, EMPTY>>) /\ op'[w].stage = "confirm_sleep"
    /\ (~ReportedOk(op'[w]) /\ op[w].faucet_idx < Len(FAUCET_ENDPOINTS)) =>
        op'[w].stage = "airdrop_faucet" /\ op'[w].faucet_idx = op[w].faucet_idx + 1
    /\ (~ReportedOk(op'[w]) /\ op[w].faucet_idx = Len(FAUCET_ENDPOINTS)) =>
        /\ op'[w].stage = "airdrop_devnet"
        /\ \A k \in 1..Len(FAUCET_ENDPOINTS) :
            [ch |-> FAUCET_ENDPOINTS[k], ok |-> FALSE] = op'[w].funding[k + 1]

\* C27 as stated: an alternate funding endpoint reports success for every
\* HTTP 2xx status; a non-2xx status or a transport exception makes the next
\* endpoint be tried, and the stage fails only when all endpoints failed.
C27_Any2xxIsSuccess ==
    [][\A w \in Workers :
        FaucetAnswers(w) =>
            /\ ReportedOk(op'[w]) <=>
                /\ ~op'[w].resp.exc
                /\ op'[w].resp.status >= 200 /\ op'[w].resp.status < 300
            /\ FaucetFollowUp(w)
       ]_vars

\* C27, amended: success is HTTP status 200 or 201; every other status (204
\* included) or a transport exception makes the next endpoint be tried, and
\* the stage fails only when all endpoints failed.
C27_Only200Or201IsSuccess ==
    [][\A w \in Workers :
        FaucetAnswers(w) =>
            /\ ReportedOk(op'[w]) <=>
                (~op'[w].resp.exc /\ op'[w].resp.status \in {200, 201})
            /\ FaucetFollowUp(w)
       ]_vars

\* The first endpoint answered 204 and failed, the second answered 201 and
\* ended the acquirer with success
C27_Witness ==
    \E w \in Workers :
        /\ wpc[w] = "swap" /\ op[w].stage = "confirm_sleep"
        /\ op[w].resp = HttpText(201, EMPTY)
        /\ Len(op[w].funding) = 3
        /\ op[w].funding[2] = [ch |-> FAUCET_ENDPOINTS[1], ok |-> FALSE]
        /\ op[w].funding[3] = [ch |-> FAUCET_ENDPOINTS[2], ok |-> TRUE]

\* The positions of text s that hold something else than a double quote
NonQuotes(s) == {k \in 1..Len(s) : s[k] # QUOTE}

\* Text s without the double quotes that surround it
Unquoted(s) ==
    IF NonQuotes(s) = {} THEN EMPTY
    ELSE SubSeq(s, CHOOSE k \in NonQuotes(s) : \A j \in NonQuotes(s) : k <= j,
                   CHOOSE k \in NonQuotes(s) : \A j \in NonQuotes(s) : k >= j)

\* C28: send_transaction_paymaster reports success if and only if the
\* response has HTTP status 200 and its body, with surrounding double quotes
\* stripped, is non-empty, is not the text "null" and is longer than 10
\* characters; on success the reference is exactly the stripped body, on
\* every failure it is the empty string.
C28_PaymasterAcceptance ==
    [][\A w \in Workers :
        (InSwap(w, "paymaster") /\ CallsNow(w)) =>
            LET resp == op'[w].resp
                body == IF resp.exc THEN EMPTY ELSE Unquoted(resp.text)
                accepted == /\ ~resp.exc /\ resp.status = 200
                            /\ body # EMPTY /\ body # NULL_TEXT /\ Len(body) > 10
            IN  /\ op'[w].paymaster_ret.done
                /\ op'[w].paymaster_ret.success <=> accepted
                /\ op'[w].paymaster_ret.ref = IF accepted THEN body ELSE EMPTY
       ]_vars

\* The quoted 11-character body was accepted with the bare text as reference
C28_Witness ==
    \E w \in Workers :
        /\ wpc[w] = "swap" /\ op[w].calls # <<>> /\ Last(op[w].calls) = "paymaster"
        /\ op[w].resp = HttpText(200, Quoted(REF11))
        /\ op[w].paymaster_ret = Ret(<<TRUE, REF11>>)
        /\ Len(op[w].resp.text) = 13 /\ Len(op[w].paymaster_ret.ref) = 11

\* C29: a signing failure never aborts the submission pipeline. After the
\* signing step, failed or not, the primary channel is next; it is always
\* sent the original transaction representation; the fallback channel is sent
\* the locally signed bytes when signing succeeded and the original unsigned
\* bytes when it failed.
C29_SigningFailureIsNotFatal ==
    [][\A w \in Workers :
        /\ (InSwap(w, "sign") /\ op'[w] # op[w]) =>
            /\ wpc'[w] = "swap" /\ op'[w].stage = "paymaster"
            /\ op'[w].serialized_tx \in {"signed", "raw_tx_bytes"}
            /\ op'[w].calls = op[w].calls
        /\ (InSwap(w, "paymaster") /\ CallsNow(w)) =>
            /\ Last(op'[w].calls) = "paymaster"
            /\ Last(op'[w].sent) = [ch |-> "paymaster", tx |-> "raw_tx"]
        /\ (InSwap(w, "rpc") /\ CallsNow(w)) =>
            /\ Last(op'[w].calls) = "sendTransaction"
            /\ Last(op'[w].sent) =
                 [ch |-> "sendTransaction",
                  tx |-> IF op[w].serialized_tx = "signed" THEN "signed" ELSE "raw_tx_bytes"]
       ]_vars

\* Signing failed, the primary channel got the original transaction and
\* refused, the fallback got the unsigned bytes and accepted
C29_Witness ==
    \E w \in Workers :
        /\ InSwap(w, "returned")
        /\ op[w].serialized_tx = "raw_tx_bytes"
        /\ op[w].sent = <<[ch |-> "paymaster", tx |-> "raw_tx"],
                          [ch |-> "sendTransaction", tx |-> "raw_tx_bytes"]>>
        /\ op[w].rpc_ret.success
        /\ op[w].result > 0

\* The first balance of an operation lets it go on without funding
SufficientOrUsable(b, amount_in) ==
    ~b.is_none /\ (b.int >= amount_in \/ (100000 < b.int /\ b.int < amount_in))

\* No funding channel was called and the balance was queried once
Unfunded(o) ==
    /\ o.funding = <<>> /\ ~o.airdrop_ret.done
    /\ Count(o.calls, "getBalance") = 1

NoSuccessReply(resp) == resp.exc \/ resp.status # 200

\* C31: the quote stage and the build stage each make a single request with
\* no retry; a quote response without the quote field, a build response
\* without the serialized-transaction field, a non-success status or a
\* transport exception makes the stage fail, the operation then returns 0
\* with no further call and is recorded as failed.
C31_QuoteAndBuildFailuresEndOperation ==
    [][\A w \in Workers :
        /\ (InSwap(w, "quote") /\ CallsNow(w)) =>
            /\ Last(op'[w].calls) = "quote" /\ Count(op'[w].calls, "quote") = 1
            /\ (NoSuccessReply(op'[w].resp) \/ ~op'[w].resp.has_quote) =>
                 op'[w].stage = "returned" /\ op'[w].result = 0
        /\ (InSwap(w, "build") /\ CallsNow(w)) =>
            /\ Last(op'[w].calls) = "build" /\ Count(op'[w].calls, "build") = 1
            /\ (NoSuccessReply(op'[w].resp) \/ ~op'[w].resp.has_tx) =>
                 op'[w].stage = "returned" /\ op'[w].result = 0
        /\ (RecordsNow(w) /\ Last(op[w].calls) \in {"quote", "build"}) =>
            op[w].result = 0 /\ RecordedAsFailed(w)
       ]_vars

\* The build reply had no serializedTx: the operation returned 0 after one
\* quote and one build request
C31_Witness ==
    \E w \in Workers :
        /\ InSwap(w, "returned")
        /\ op[w].resp = BuildReply(200, TRUE, FALSE, FALSE)
        /\ op[w].calls = <<"getBalance", "quote", "build">>
        /\ op[w].quote.ok /\ op[w].quote.token_min_out = 7
        /\ op[w].result = 0

\* Operation o got past the balance gate, the quote and the build: the
\* submission pipeline was entered
ReachedSubmission(o) ==
    /\ Called(o, {"quote"}) /\ o.quote.ok
    /\ Called(o, {"build"}) /\ Called(o, {"paymaster"})

RecordedAsSuccessful(w) ==
    /\ stats'[w].successful_swaps = stats[w].successful_swaps + 1
    /\ stats'[w].failed_swaps = stats[w].failed_swaps
    /\ stats'[w].total_volume = stats[w].total_volume + op[w].amount_in

\* C32: the worker records an operation as successful exactly when
\* perform_swap returned an amount > 0, which is exactly when the balance
\* gate passed, quote and build succeeded and the quote's minimum output is
\* > 0, whatever the submission channels reported; an operation whose
\* submission was accepted with a minimum output of 0 is recorded as failed.
C32_SuccessIsPositiveMinOut ==
    [][\A w \in Workers :
        RecordsNow(w) =>
            /\ op[w].result > 0 <=>
                 (ReachedSubmission(op[w]) /\ op[w].quote.token_min_out > 0)
            /\ IF op[w].result > 0 THEN RecordedAsSuccessful(w) ELSE RecordedAsFailed(w)
            /\ (op[w].exec_ret.done /\ op[w].exec_ret.success
                  /\ op[w].quote.token_min_out = 0) => RecordedAsFailed(w)
            /\ (op[w].exec_ret.done /\ ~op[w].exec_ret.success
                  /\ op[w].quote.token_min_out > 0) => RecordedAsSuccessful(w)
       ]_vars

\* The paymaster accepted the transaction of a quote with minimum output 0:
\* perform_swap returned 0
C32_Witness ==
    \E w \in Workers :
        /\ InSwap(w, "returned")
        /\ op[w].paymaster_ret.success /\ op[w].exec_ret.success
        /\ op[w].quote.ok /\ op[w].quote.token_min_out = 0
        /\ op[w].result = 0

\* The candidate amounts as a set
CandidateAmounts == {SWAP_AMOUNTS[k] : k \in DOMAIN SWAP_AMOUNTS}

\* The requested amount of the operation worker w starts in this step
StartsOperation(w) == wpc[w] # "swap" /\ wpc'[w] = "swap"

\* C33: total_volume is the sum of the requested amounts of the operations
\* recorded as successful so far: it starts at 0, grows by the operation's
\* requested amount when a success is recorded and changes at no other step;
\* every requested amount is one of SWAP_AMOUNTS; recording a failure leaves
\* total_volume and successful_swaps unchanged. Hence it never exceeds the sum
\* of all amounts drawn, which it equals when nothing has failed.
C33_VolumeIsSumOfSuccessfulAmounts ==
    [][\A w \in Workers :
        /\ wpc[w] = "not_started" => stats[w].total_volume = 0
        /\ StartsOperation(w) =>
            /\ op'[w].amount_in \in CandidateAmounts
            /\ stats'[w].total_volume = IF wpc[w] = "not_started" THEN 0
                                        ELSE stats[w].total_volume
        /\ wpc[w] = "swap" => op[w].amount_in \in CandidateAmounts
        /\ (wpc[w] = "swap" /\ wpc'[w] = "swap") =>
            op'[w].amount_in = op[w].amount_in /\ stats'[w] = stats[w]
        /\ RecordsNow(w) =>
            IF op[w].result > 0 THEN RecordedAsSuccessful(w) ELSE RecordedAsFailed(w)
        /\ (~RecordsNow(w) /\ ~StartsOperation(w)) =>
            stats'[w].total_volume = stats[w].total_volume
        /\ stats[w].total_volume <= hist[w].chosen
        /\ (stats[w].failed_swaps = 0 /\ wpc[w] \in {"sleep", "done"}) =>
            stats[w].total_volume = hist[w].chosen
       ]_vars

\* Three operations recorded: successes of 100000 and 200000, and a failure
C33_Witness ==
    \E w \in Workers :
        /\ wpc[w] = "sleep"
        /\ stats[w].successful_swaps = 2 /\ stats[w].failed_swaps = 1
        /\ stats[w].total_volume = 300000
        /\ hist[w].chosen > 300000

\* The number of outcomes the fleet's totals hold
OutcomesRecorded ==
    fleet.total_stats.total_successful_swaps + fleet.total_stats.total_failed_swaps

\* C34: for every completed fleet run with W workers and N swaps each,
\* total_successful_swaps + total_failed_swaps = W * N, which is also the
\* attempted-swap count worker_count * swaps_per_worker that the report
\* computes.
C34_AttemptsEqualOutcomes ==
    /\ fleet.pc \in {"done", "reported"} =>
        /\ OutcomesRecorded = Len(keypairs) * num_swaps
        /\ OutcomesRecorded =
             fleet.total_stats.worker_count * fleet.total_stats.swaps_per_worker
    /\ fleet.pc = "reported" => fleet.report.total_attempts = OutcomesRecorded

\* Two workers on the same wallet, two swaps each, three successes and one
\* failure: four attempts reported
C34_Witness ==
    /\ fleet.pc = "reported"
    /\ keypairs = <<1, 1>> /\ num_swaps = 2
    /\ fleet.total_stats.total_successful_swaps = 3
    /\ fleet.total_stats.total_failed_swaps = 1
    /\ fleet.report.total_attempts = 4

\* The channels of the funding acquirer
FUNDING_CHANNELS ==
    {"requestAirdrop", "devnet"} \cup {FAUCET_ENDPOINTS[k] : k \in DOMAIN FAUCET_ENDPOINTS}

RECURSIVE CountIn(_, _)
CountIn(seq, channels) ==
    IF seq = <<>> THEN 0
    ELSE (IF Head(seq) \in channels THEN 1 ELSE 0) + CountIn(Tail(seq), channels)

\* C35: one perform_swap invocation issues a bounded number of remote calls
\* whatever the responses: at most 2 balance queries, at most 1 invocation
\* of the funding acquirer with at most 4 funding requests, at most 1 quote,
\* 1 build, 1 primary submission and 1 fallback submission.
C35_BoundedCallsPerOperation ==
    \A w \in Workers :
        LET calls == op[w].calls
        IN  /\ CountIn(calls, {"getBalance"}) <= 2
            /\ CountIn(calls, {"requestAirdrop"}) <= 1
            /\ \A ch \in FUNDING_CHANNELS : CountIn(calls, {ch}) <= 1
            /\ CountIn(calls, FUNDING_CHANNELS) <= 4
            /\ CountIn(calls, FUNDING_CHANNELS) = Len(op[w].funding)
            /\ CountIn(calls, FUNDING_CHANNELS \ {"requestAirdrop"}) > 0 =>
                 calls[2] = "requestAirdrop"
            /\ CountIn(calls, {"quote"}) <= 1
            /\ CountIn(calls, {"build"}) <= 1
            /\ CountIn(calls, {"paymaster"}) <= 1
            /\ CountIn(calls, {"sendTransaction"}) <= 1
            /\ Len(calls) <= 10

\* The longest operation: two balance queries, four funding requests, quote,
\* build and both submission channels
C35_Witness ==
    \E w \in Workers :
        /\ InSwap(w, "returned")
        /\ Len(op[w].calls) = 10
        /\ CountIn(op[w].calls, {"getBalance"}) = 2
        /\ CountIn(op[w].calls, FUNDING_CHANNELS) = 4
        /\ Last(op[w].calls) = "sendTransaction"

\* The parameters main passes to the fleet are in the range the run needs
ParametersInRange ==
    /\ num_swaps >= 1
    /\ ~min_delay.nan /\ ~max_delay.nan
    /\ 0 <= min_delay.ms /\ min_delay.ms <= max_delay.ms

\* The connectivity check saw the expected genesis hash and an advancing slot
ConnectivityVerified ==
    /\ ~fleet.genesis.exc /\ fleet.genesis.has_result
    /\ fleet.genesis.result = "FOGO_GENESIS_HASH"
    /\ ~fleet.first_slot.exc /\ fleet.first_slot.has_result
    /\ ~fleet.second_slot.exc /\ fleet.second_slot.has_result
    /\ fleet.second_slot.result > fleet.first_slot.result

NoSwapOperationRun == \A w \in Workers : hist[w].ops_started = 0

\* C36: the fleet is started only after every start-up gate has passed
\* (num_swaps >= 1 and 0 <= min_delay <= max_delay, the genesis hash is the
\* expected one and the slot advanced between two reads, at least one key
\* was loaded), and when a gate fails main returns with no swap operation run
C36_FleetStartsOnlyAfterGates ==
    /\ fleet.pc = "gather" =>
          ParametersInRange /\ ConnectivityVerified /\ Len(keypairs) >= 1
    /\ fleet.pc = "returned" => NoSwapOperationRun
    /\ ~NoSwapOperationRun => fleet.pc = "gather"

ReportingOperations ==
    { "print_final_statistics", "calculate_worker_efficiency",
      "print_efficiency_report", "generate_summary_report" }

\* C37: print_final_statistics, calculate_worker_efficiency,
\* print_efficiency_report and generate_summary_report complete without
\* raising on the statistics of every completed run, a run with no
\* successful swap included
C37_ReportingNeverRaises ==
    /\ fleet.pc # "raised"
    /\ fleet.report.raised \cap ReportingOperations = {}

=============================================================================
